---- MODULE Spec2Model ----
(***************************************************************************)
(* The step scheduler of nengo-rs: Engine::run_step / run_steps, the Event *)
(* latch, the task run_step_async wrapped by notify_when_done, the shared  *)
(* per-operator futures of run_operators, the read/write leases that the   *)
(* operators' step() take on the signals' RwLocks, and the probe phase.    *)
(***************************************************************************)
EXTENDS Naturals, Sequences, FiniteSets

(* ------------------------------ bounds --------------------------------- *)

\* number of operators in the engine's operator list
NOps == 3
\* number of probes in the engine's probe list
NProbes == 2
\* number of run_step calls the caller issues in total
MaxSteps == 2

Ops == 0 .. (NOps - 1)
Probes == 0 .. (NProbes - 1)
TaskIds == 1 .. MaxSteps

(* ------------------------- signals and operators ------------------------ *)

\* The signals of the engine: two scalars (step, time) and two owned arrays.
SigStep == "step"
SigTime == "time"
SigA == "A"
SigB == "B"
Signals == {SigStep, SigTime, SigA, SigB}

Acq(mode, sig) == [t |-> "acq", mode |-> mode, sig |-> sig]
DropGuards == [t |-> "drop", mode |-> "-", sig |-> "-"]
HostCall == [t |-> "call", mode |-> "-", sig |-> "-"]
\* a callback whose result may be None, in which case nothing is written
HostCallOptional == [t |-> "call", mode |-> "opt", sig |-> "-"]
AcqGil == [t |-> "gil", mode |-> "-", sig |-> "-"]
RelGil == [t |-> "ungil", mode |-> "-", sig |-> "-"]

\* a host-callback operator that calls into the host without its lock
HostPrologueUnlocked == << >>

\* the first statement of step() of every host-callback operator:
\* `let gil = Python::acquire_gil();`
HostPrologue == << AcqGil >>

\* `gil` is the first local of step(), so it is the last to be dropped
HostEpilogue == << RelGil >>

\* TimeUpdate::step: `*step_target.write() += 1;` then
\* `*time_target.write() = *step_target.read() as f64 * dt;` (the assigned
\* value is evaluated first; both guards live to the end of the statement).
TimeUpdateStep ==
    << Acq("W", SigStep), DropGuards,
       Acq("R", SigStep), Acq("W", SigTime), DropGuards >>

\* Reset::step: `self.target.write().assign_array(&self.value)`.
ResetStep(target) == << Acq("W", target), DropGuards >>

\* ElementwiseInc::step: left.read(), right.read(), target.write(), all three
\* guards held until the end of step().
ElementwiseIncStep(target, left, right) ==
    << Acq("R", left), Acq("R", right), Acq("W", target), DropGuards >>

\* SimNeurons::step: input_current.read() is a temporary of its statement,
\* then the host callback (which may fail: the unwrap_or_else panics), then
\* output.write() for the copy of the result.
SimNeuronsStep(input_current, output) ==
    HostPrologue
    \o << Acq("R", input_current), DropGuards, HostCall,
          Acq("W", output), DropGuards >>
    \o HostEpilogue

\* SimProcess::step (with an input): t.read() and input.read() are
\* temporaries of their statements, then the host callback (expect panics
\* on failure); a result that is not None is written to (or added into)
\* output under a write lease held to the end of the block.
SimProcessStep(t, input, output) ==
    HostPrologue
    \o << Acq("R", t), DropGuards, Acq("R", input), DropGuards,
          HostCallOptional, Acq("W", output), DropGuards >>
    \o HostEpilogue

\* SimPyFunc::step (with t and x): t.read() is a temporary of the let that
\* builds the float, x.read() of the statement that builds the arguments,
\* then the host callback; a result that is not None is assigned to output.
SimPyFuncStep(t, x, output) ==
    HostPrologue
    \o << Acq("R", t), DropGuards, Acq("R", x), DropGuards,
          HostCallOptional, Acq("W", output), DropGuards >>
    \o HostEpilogue

\* The operators an engine of this model can be built from.
Catalogue ==
    << TimeUpdateStep,
       ResetStep(SigA),
       ElementwiseIncStep(SigB, SigA, SigA),
       SimNeuronsStep(SigB, SigA),
       ElementwiseIncStep(SigA, SigA, SigB) >>

Kinds == 1 .. Len(Catalogue)

\* The operators of an engine that drives host callbacks.
HostCatalogue ==
    << SimNeuronsStep(SigB, SigA),
       SimProcessStep(SigTime, SigA, SigB),
       SimPyFuncStep(SigTime, SigB, SigA),
       ElementwiseIncStep(SigA, SigA, SigB) >>

\* Two view signals, both views of the array A: the names of their own
\* locks (every ArraySignal, owned or view, has its own RwLock around its
\* ArrayRef).
SigV1 == "V1"
SigV2 == "V2"

\* an array signal as an operand: the lock read()/write() take, and the
\* base whose buffer the ArrayRef behind it points into ("-": owned)
Owned(s) == [lock |-> s, base |-> "-"]
View(v, base) == [lock |-> v, base |-> base]

\* the lease an ArrayRef::View takes on its base's buffer inside assign,
\* assign_array and add_assign (`base.buffer.read()` / `.write()`); an
\* owned ArrayRef takes none
BaseAcq(mode, s) == IF s.base = "-" THEN << >> ELSE << Acq(mode, s.base) >>

\* CopyOp::step on arrays: `self.dst.write().assign(&self.src.read())` (or
\* `**self.dst.write() += &**self.src.read()`): the guard of dst.write(),
\* then the guard of src.read(); inside assign (add_assign) the read lease
\* on the base of a src that is a view, and, while that one is held, inside
\* assign_array the write lease on the base of a dst that is a view.
CopyStep(dst, src) ==
    << Acq("W", dst.lock), Acq("R", src.lock) >>
    \o BaseAcq("R", src) \o BaseAcq("W", dst)
    \o << DropGuards >>

\* Copies between the owned arrays A and B and the views V1 and V2 of A:
\* three without aliasing, then dst a view of src, src a view of dst, both
\* views of one base, and src and dst the same signal.
ViewCatalogue ==
    << CopyStep(Owned(SigB), View(SigV1, SigA)),
       CopyStep(View(SigV1, SigA), Owned(SigB)),
       CopyStep(View(SigV2, SigA), Owned(SigB)),
       CopyStep(View(SigV1, SigA), Owned(SigA)),
       CopyStep(Owned(SigA), View(SigV1, SigA)),
       CopyStep(View(SigV1, SigA), View(SigV2, SigA)),
       CopyStep(Owned(SigA), Owned(SigA)) >>

\* The operators of an engine whose array contents are followed: the
\* shapes fit (B holds one element, which ElementwiseInc broadcasts over A).
ValueCatalogue ==
    << TimeUpdateStep,
       ResetStep(SigB),
       ElementwiseIncStep(SigA, SigB, SigB) >>

Programs == Catalogue \o HostCatalogue \o ViewCatalogue \o ValueCatalogue

\* SignalProbe: probe p samples this signal.
ProbeTarget(p) == IF p % 2 = 0 THEN SigA ELSE SigTime

(* ------------------------------- state --------------------------------- *)

VARIABLES
    deps,       \* OperatorNode.dependencies of each operator (frozen)
    kind,       \* which operator of the Catalogue each node holds (frozen)
    pc,         \* where the caller thread is in run_steps / run_threaded
    remaining,  \* iterations left of the loop of run_steps
    spawned,    \* tasks handed to the thread pool so far
    is_done,    \* the Event's flag
    phase,      \* per task: where run_step_async is
    fut,        \* per task, per operator: state of the Shared future
    stack,      \* per task: the nested polls in progress (innermost last)
    pending,    \* per task, per operator: dependency entries not yet Ready
    top,        \* per task: entries of the FuturesOrdered not yet Ready
    ipc,        \* per task: next instruction of the operator inside step()
    held,       \* per task: the lease guards alive on the task's thread
    probesLeft, \* per task: probe futures not yet Ready
    data,       \* per probe: the recorded samples (the tick each was taken in)
    started,    \* per task, per operator: how often step() was entered
    finished,   \* per task, per operator: how often step() returned
    gil,        \* the task that holds the host's global lock (0: nobody)
    pc2,        \* where a second caller thread is in run_step or reset
    rpos,       \* second caller: the signal Engine::reset is about to reset
    late,       \* second caller: its call began after a step had failed
    task2,      \* second caller: the task its run_step submitted (0: none)
    val,        \* the value each signal's buffer holds
    initial_value, \* the initial_value each signal was constructed with
    views,      \* the view signals constructed so far (base and slice)
    last,       \* the last call made on a signal, and on which
    resetAt     \* the value of `spawned` when Engine::reset last returned

config == << deps, kind >>
caller == << pc, remaining, spawned >>
futures == << fut, stack, pending, top >>
ghost == << started, finished >>
second == << pc2, rpos, late, task2 >>
built == << initial_value, views, last >>
store == << val, built, resetAt >>
vars == << deps, kind, pc, remaining, spawned, is_done, phase, fut, stack,
           pending, top, ipc, held, probesLeft, data, started, finished,
           gil, pc2, rpos, late, task2, val, initial_value, views, last,
           resetAt >>

(* ------------------------------ the graph ------------------------------ *)

\* the list naming the indices of S once each, smallest first
RECURSIVE Listing(_)
Listing(S) ==
    IF S = {} THEN << >>
    ELSE LET m == CHOOSE x \in S : \A y \in S : x <= y
         IN << m >> \o Listing(S \ {m})

\* The dependencies lists operator i may carry: any set of smaller indices,
\* or one smaller index listed twice.  run_operators collects the list into
\* a FuturesUnordered, so only which indices it names and how often
\* matters: lists are enumerated up to their order.  << i >> stands for an
\* index that is not smaller than the operator's own (the constructors
\* accept any Vec<usize>).
DepLists(i) ==
    { Listing(S) : S \in SUBSET (0 .. (i - 1)) }
    \cup { << j, j >> : j \in 0 .. (i - 1) }
    \cup { << i >> }

RECURSIVE GraphsFrom(_)
GraphsFrom(i) ==
    IF i = NOps THEN { << >> }
    ELSE { << d >> \o g : d \in DepLists(i), g \in GraphsFrom(i + 1) }

\* Engines differ in where the catalogue starts: operator i holds catalogue
\* entry i + shift (cyclically).
KindAt(shift, i) == ((i + shift) % Len(Catalogue)) + 1

\* the same for an engine built from the host catalogue
HostKindAt(shift, i) == Len(Catalogue) + ((i + shift) % Len(HostCatalogue)) + 1

Prog(i) == Programs[kind[i]]

DepSet(i) == { deps[i][e] : e \in DOMAIN deps[i] }

\* tasks.get(*i).unwrap() finds a future for every index of every list
GraphBuildable == \A i \in Ops : \A j \in DepSet(i) : j < i

(* ------------------------------- Init ----------------------------------- *)

NoFut == [i \in Ops |-> "none"]
NoCount == [i \in Ops |-> 0]

(* ------------------------------ the values ----------------------------- *)

\* A value is the sequence of the elements of a buffer (one element for a
\* scalar).  Unknown stands for contents the model does not follow (no
\* buffer is empty: ArraySignal::new turns the shape [] into [1]).
Unknown == << >>

\* length of the array signal A
ArrLen == 3
\* largest element an array holds
MaxElem == 1
\* TimeUpdate.dt, in units of the resolution of time
Dt == 2

Elems == 0 .. MaxElem
Arrays(n) == [1 .. n -> Elems]

\* Engine.signals
SignalList == << SigStep, SigTime, SigA, SigB >>

\* the shape of the signal's buffer (A is a vector, B holds one element)
ShapeOf(s) == IF s = SigA THEN ArrLen ELSE 1

\* the initial values the signals are constructed with: the step counter
\* starts at step0, the time at 0
InitialValues(step0) ==
    [s \in Signals |->
        IF s = SigStep THEN << step0 >>
        ELSE IF s = SigTime THEN << 0 >>
        ELSE IF s = SigA THEN [x \in 1 .. ArrLen |-> x % (MaxElem + 1)]
        ELSE << MaxElem >>]

\* no buffer's contents are followed
Untracked == [s \in Signals |-> Unknown]

\* a time computed from the step count as it was before the increment
TimeOfPrevious(step) == (step - 1) * Dt

\* TimeUpdate::step, second statement: `step as f64 * self.dt`
TimeOf(step) == step * Dt

\* a step() that writes nothing
StepWritesNothing(v, prog, s) == v

\* The store after step() of the operator with lease program prog has
\* written signal s under its write lease.  TimeUpdate: `+= 1` on the step
\* counter, the product of the counter and dt on the time.  The contents an
\* array operator writes are not followed here.
StepWrites(v, prog, s) ==
    IF prog = TimeUpdateStep /\ s = SigStep
    THEN [v EXCEPT ![s] = IF @ = Unknown THEN Unknown ELSE << @[1] + 1 >>]
    ELSE IF prog = TimeUpdateStep /\ s = SigTime
    THEN [v EXCEPT ![s] = IF v[SigStep] = Unknown THEN Unknown
                          ELSE << TimeOf(v[SigStep][1]) >>]
    ELSE [v EXCEPT ![s] = Unknown]

\* a reset that adds the initial value into the buffer
ResetSignalAdding(v, s) ==
    [v EXCEPT ![s] = [x \in DOMAIN @ |-> @[x] + initial_value[s][x]]]

\* Signal::reset of a scalar or of an owned array: the value (every element
\* of the buffer) is assigned from initial_value
ResetSignal(v, s) == [v EXCEPT ![s] = initial_value[s]]

\* a reset that stops after one signal
ResetOnlyOne(v, n) == ResetSignal(v, SignalList[n])

\* Engine::reset: `self.signals.iter().for_each(|s| s.reset())`, from
\* position n of the list on
RECURSIVE ResetFrom(_, _)
ResetFrom(v, n) ==
    IF n > Len(SignalList) THEN v
    ELSE ResetFrom(ResetSignal(v, SignalList[n]), n + 1)

\* names for the signals a caller can hold: a scalar, an owned array, or
\* the i-th view constructed
ScalarRef(name) == [kind |-> "scalar", name |-> name, idx |-> 0]
OwnedRef(name) == [kind |-> "owned", name |-> name, idx |-> 0]
ViewRef(i) == [kind |-> "view", name |-> "-", idx |-> i]
NoRef == [kind |-> "-", name |-> "-", idx |-> 0]

Called(call, ref) == [call |-> call, ref |-> ref]

\* nothing constructed but the engine's scalars and owned arrays
Unbuilt(step0) ==
    /\ initial_value = InitialValues(step0)
    /\ views = << >>
    /\ last = Called("none", NoRef)
    /\ resetAt = 0

\* nothing has been called yet: Engine::new, Event::new, SignalProbe::new
Start ==
    /\ pc = "idle"
    /\ remaining = 0
    /\ spawned = 0
    /\ is_done = FALSE
    /\ phase = [k \in TaskIds |-> "none"]
    /\ fut = [k \in TaskIds |-> NoFut]
    /\ stack = [k \in TaskIds |-> << >>]
    /\ pending = [k \in TaskIds |-> [i \in Ops |-> {}]]
    /\ top = [k \in TaskIds |-> {}]
    /\ ipc = [k \in TaskIds |-> 0]
    /\ held = [k \in TaskIds |-> << >>]
    /\ probesLeft = [k \in TaskIds |-> {}]
    /\ data = [p \in Probes |-> << >>]
    /\ started = [k \in TaskIds |-> NoCount]
    /\ finished = [k \in TaskIds |-> NoCount]
    /\ gil = 0
    /\ pc2 = "idle"
    /\ rpos = 0
    /\ late = FALSE
    /\ task2 = 0

Init ==
    /\ \E g \in GraphsFrom(0) : deps = [i \in Ops |-> g[i + 1]]
    /\ \E shift \in 0 .. (Len(Catalogue) - 1) :
           kind = [i \in Ops |-> KindAt(shift, i)]
    /\ Start
    /\ Unbuilt(0)
    /\ val = Untracked

\* an engine whose operators come from the host catalogue
InitHost ==
    /\ \E g \in GraphsFrom(0) : deps = [i \in Ops |-> g[i + 1]]
    /\ \E shift \in 0 .. (Len(HostCatalogue) - 1) :
           kind = [i \in Ops |-> HostKindAt(shift, i)]
    /\ Start
    /\ Unbuilt(0)
    /\ val = Untracked

(* --------------------------- the Event latch ---------------------------- *)

\* Event::set_value: the flag takes the value (notify_all wakes the waiters,
\* which re-test the flag)
set_value(value) == is_done' = value

\* a wait() that returns without looking at the flag
WaitOverUnconditional == TRUE

\* Event::wait returns only once the flag is set
WaitOver == is_done

(* ----------------------------- the caller ------------------------------- *)

tasks == << phase, fut, stack, pending, top, ipc, held, probesLeft >>

\* Engine::run_steps(n_steps): `for _ in 0..n_steps { self.run_step() }`
RunSteps(n) ==
    /\ pc = "idle"
    /\ spawned + n <= MaxSteps
    /\ remaining' = n
    /\ pc' = "clear"
    /\ UNCHANGED << config, second, store, gil, spawned, is_done, tasks, data, ghost >>

\* run_threaded, first statement: self.is_done.clear()
Clear ==
    /\ pc = "clear"
    /\ set_value(FALSE)
    /\ pc' = "spawn"
    /\ UNCHANGED << config, second, store, gil, remaining, spawned, tasks, data, ghost >>

\* run_threaded, second statement: thread_pool.spawn_ok(notify_when_done(..))
\* of the future run_step_async(operators.clone(), probes.clone())
Spawn ==
    /\ pc = "spawn"
    /\ spawned < MaxSteps
    /\ spawned' = spawned + 1
    /\ phase' = [phase EXCEPT ![spawned + 1] = "queued"]
    /\ pc' = "wait"
    /\ UNCHANGED << config, second, store, gil, remaining, is_done, fut, stack, pending, top, ipc,
                    held, probesLeft, data, ghost >>

\* run_threaded, third statement: self.is_done.wait() returns; run_step
\* returns to the loop of run_steps
WaitReturn ==
    /\ pc = "wait"
    /\ WaitOver
    /\ pc' = "returned"
    /\ UNCHANGED << config, second, store, gil, remaining, spawned, is_done, tasks, data, ghost >>

\* the loop of run_steps goes on to its next iteration, or run_steps returns
NextIteration ==
    /\ pc = "returned"
    /\ remaining' = remaining - 1
    /\ pc' = IF remaining > 1 THEN "clear" ELSE "idle"
    /\ UNCHANGED << config, second, store, gil, spawned, is_done, tasks, data, ghost >>

(* ------------------------ leases (std::sync::RwLock) -------------------- *)

Guard(sig, mode, op) == [sig |-> sig, mode |-> mode, op |-> op]

\* number of guards of the given mode alive on signal s, over all threads
RECURSIVE CountIn(_, _, _)
CountIn(h, s, mode) ==
    IF h = << >> THEN 0
    ELSE (IF Head(h).sig = s /\ Head(h).mode = mode THEN 1 ELSE 0)
         + CountIn(Tail(h), s, mode)

RECURSIVE CountUpTo(_, _, _)
CountUpTo(k, s, mode) ==
    IF k = 0 THEN 0 ELSE CountIn(held[k], s, mode) + CountUpTo(k - 1, s, mode)

Readers(s) == CountUpTo(MaxSteps, s, "R")
Writers(s) == CountUpTo(MaxSteps, s, "W")

\* a lock that hands out every lease it is asked for
GrantableAlways(mode, s) == TRUE

\* RwLock::read() succeeds while no writer holds the lock, RwLock::write()
\* while nobody holds it; otherwise the calling thread blocks.
Grantable(mode, s) ==
    IF mode = "R" THEN Writers(s) = 0 ELSE Writers(s) = 0 /\ Readers(s) = 0

\* guards that outlive step() (kept alive or forgotten instead of dropped)
AfterDropLeaked(h, i) == h

\* the guards left on a thread when operator i's guards go out of scope
AfterDrop(h, i) == SelectSeq(h, LAMBDA g : g.op # i)

(* ------------------------------ the task -------------------------------- *)

Frame(i, via) == [op |-> i, via |-> via]
Top(k) == stack[k][Len(stack[k])]
Pop(k) == SubSeq(stack[k], 1, Len(stack[k]) - 1)
InStep(k) == stack[k] # << >> /\ fut[k][Top(k).op] = "stepping"
Instr(k) == Prog(Top(k).op)[ipc[k]]

\* a future that is not memoized: every poll of a clone drives the body
MustRunEveryPoll(k, j) == TRUE

\* Shared::poll: a future that already completed hands out its memoized
\* output; otherwise the poll drives the inner create_future
MustRun(k, j) == fut[k][j] # "complete"

\* create_future without the await on its dependencies
DepsReadyUnawaited(k, i) == TRUE

\* create_future: `dependencies.collect::<()>().await` is over
DepsReady(k, i) == pending[k][i] = {}

\* run_step_async that goes on to the probes without awaiting run_operators
OperatorsAwaitedNever(k) == TRUE

\* run_step_async: `run_operators(&operators).await` is over
OperatorsAwaited(k) == top[k] = {} /\ stack[k] = << >>

\* the probe futures built but never awaited before is_done.set()
ProbesAwaitedNever(k) == TRUE

\* run_step_async: the collect over the probe futures is over
ProbesAwaited(k) == probesLeft[k] = {}

\* a probe() that records nothing
SampledNothing(d, k) == d

\* SignalProbe::probe: self.data.push(<clone of the signal's value>)
Sampled(d, k) == Append(d, k)

\* run_operators, lines 25-37: one Shared future per node, each holding
\* clones of the futures of its dependencies; lines 38-43: the FuturesOrdered
\* over clones of all of them.  Nothing runs yet (futures are lazy).
BuildTasks(k) ==
    /\ phase[k] = "queued"
    /\ GraphBuildable
    /\ phase' = [phase EXCEPT ![k] = "operators"]
    /\ fut' = [fut EXCEPT ![k] = [i \in Ops |-> "idle"]]
    /\ pending' = [pending EXCEPT ![k] = [i \in Ops |-> DOMAIN deps[i]]]
    /\ top' = [top EXCEPT ![k] = Ops]
    /\ started' = [started EXCEPT ![k] = NoCount]
    /\ finished' = [finished EXCEPT ![k] = NoCount]
    /\ UNCHANGED << config, second, store, gil, caller, is_done, stack, ipc, held, probesLeft, data >>

\* run_operators, line 30: tasks.get(*i).unwrap() panics on an index that
\* has no future yet; the panic unwinds through notify_when_done
BuildPanic(k) ==
    /\ phase[k] = "queued"
    /\ ~ GraphBuildable
    /\ phase' = [phase EXCEPT ![k] = "panicked"]
    /\ UNCHANGED << config, second, store, gil, caller, is_done, futures, ipc, held, probesLeft,
                    data, ghost >>

\* the FuturesOrdered polls one of its entries (in no particular order)
PollTop(k, i) ==
    /\ phase[k] = "operators"
    /\ stack[k] = << >>
    /\ i \in top[k]
    /\ IF MustRun(k, i)
       THEN /\ stack' = [stack EXCEPT ![k] = << Frame(i, 0) >>]
            /\ fut' = [fut EXCEPT ![k][i] = "polling"]
            /\ top' = top
       ELSE /\ top' = [top EXCEPT ![k] = @ \ {i}]
            /\ UNCHANGED << stack, fut >>
    /\ UNCHANGED << config, second, store, gil, caller, is_done, phase, pending, ipc, held,
                    probesLeft, data, ghost >>

\* create_future of the operator on top of the stack polls one entry of its
\* FuturesUnordered of dependencies
PollDep(k, e) ==
    /\ phase[k] = "operators"
    /\ stack[k] # << >>
    /\ fut[k][Top(k).op] = "polling"
    /\ e \in pending[k][Top(k).op]
    /\ LET i == Top(k).op
           j == deps[i][e]
       IN IF MustRun(k, j)
          THEN /\ stack' = [stack EXCEPT ![k] = Append(@, Frame(j, e))]
               /\ fut' = [fut EXCEPT ![k][j] = "polling"]
               /\ pending' = pending
          ELSE /\ pending' = [pending EXCEPT ![k][i] = @ \ {e}]
               /\ UNCHANGED << stack, fut >>
    /\ UNCHANGED << config, second, store, gil, caller, is_done, phase, top, ipc, held,
                    probesLeft, data, ghost >>

\* create_future, line 51: operator.step() is entered
StepBegin(k) ==
    /\ phase[k] = "operators"
    /\ stack[k] # << >>
    /\ fut[k][Top(k).op] = "polling"
    /\ DepsReady(k, Top(k).op)
    /\ fut' = [fut EXCEPT ![k][Top(k).op] = "stepping"]
    /\ ipc' = [ipc EXCEPT ![k] = 1]
    /\ started' = [started EXCEPT ![k][Top(k).op] = @ + 1]
    /\ UNCHANGED << config, second, store, gil, caller, is_done, phase, stack, pending, top, held,
                    probesLeft, data, finished >>

\* inside step(): signal.read() / signal.write() returns a guard; what
\* step() writes through a write guard is in the buffer before anybody else
\* can get a lease on it
Acquire(k) ==
    /\ phase[k] = "operators"
    /\ InStep(k)
    /\ ipc[k] <= Len(Prog(Top(k).op))
    /\ Instr(k).t = "acq"
    /\ Grantable(Instr(k).mode, Instr(k).sig)
    /\ held' = [held EXCEPT
                  ![k] = Append(@, Guard(Instr(k).sig, Instr(k).mode, Top(k).op))]
    /\ ipc' = [ipc EXCEPT ![k] = @ + 1]
    /\ val' = IF Instr(k).mode = "W"
              THEN StepWrites(val, Prog(Top(k).op), Instr(k).sig)
              ELSE val
    /\ UNCHANGED << config, second, built, resetAt, gil, caller, is_done, phase, futures, probesLeft, data,
                    ghost >>

\* the guards this thread holds that stand against the lease it asks for
OwnConflict(k) ==
    \E x \in DOMAIN held[k] :
        /\ held[k][x].sig = Instr(k).sig
        /\ (held[k][x].mode = "W" \/ Instr(k).mode = "W")

\* inside step(): the lock is already held by this very thread; the call
\* blocks for ever or panics (std documents both), and the panic unwinds
LeasePanic(k) ==
    /\ phase[k] = "operators"
    /\ InStep(k)
    /\ ipc[k] <= Len(Prog(Top(k).op))
    /\ Instr(k).t = "acq"
    /\ OwnConflict(k)
    /\ phase' = [phase EXCEPT ![k] = "panicked"]
    /\ held' = [held EXCEPT ![k] = << >>]
    /\ gil' = (IF gil = k THEN 0 ELSE gil)
    /\ UNCHANGED << config, second, store, caller, is_done, futures, ipc, probesLeft, data,
                    ghost >>

\* inside step(): the guards of the statement (or of step()) go out of scope
Drop(k) ==
    /\ phase[k] = "operators"
    /\ InStep(k)
    /\ ipc[k] <= Len(Prog(Top(k).op))
    /\ Instr(k).t = "drop"
    /\ held' = [held EXCEPT ![k] = AfterDrop(@, Top(k).op)]
    /\ ipc' = [ipc EXCEPT ![k] = @ + 1]
    /\ UNCHANGED << config, second, store, gil, caller, is_done, phase, futures, probesLeft, data,
                    ghost >>

\* inside step(): Python::acquire_gil() returns once nobody else holds the
\* host's lock
AcquireGil(k) ==
    /\ phase[k] = "operators"
    /\ InStep(k)
    /\ ipc[k] <= Len(Prog(Top(k).op))
    /\ Instr(k).t = "gil"
    /\ gil = 0
    /\ gil' = k
    /\ ipc' = [ipc EXCEPT ![k] = @ + 1]
    /\ UNCHANGED << config, second, store, caller, is_done, phase, futures,
                    held, probesLeft, data, ghost >>

\* inside step(): the GILGuard goes out of scope at the end of step()
ReleaseGil(k) ==
    /\ phase[k] = "operators"
    /\ InStep(k)
    /\ ipc[k] <= Len(Prog(Top(k).op))
    /\ Instr(k).t = "ungil"
    /\ gil' = 0
    /\ ipc' = [ipc EXCEPT ![k] = @ + 1]
    /\ UNCHANGED << config, second, store, caller, is_done, phase, futures,
                    held, probesLeft, data, ghost >>

\* the host callback returns Ok (for SimProcess and SimPyFunc: with an
\* array)
CallbackOk(k) ==
    /\ phase[k] = "operators"
    /\ InStep(k)
    /\ ipc[k] <= Len(Prog(Top(k).op))
    /\ Instr(k).t = "call"
    /\ ipc' = [ipc EXCEPT ![k] = @ + 1]
    /\ UNCHANGED << config, second, store, gil, caller, is_done, phase, futures, held, probesLeft,
                    data, ghost >>

\* SimProcess::step, SimPyFunc::step: the callback returns None, and the
\* `if let Some(result)` block is skipped
CallbackNone(k) ==
    /\ phase[k] = "operators"
    /\ InStep(k)
    /\ ipc[k] <= Len(Prog(Top(k).op))
    /\ Instr(k).t = "call"
    /\ Instr(k).mode = "opt"
    /\ ipc' = [ipc EXCEPT ![k] = Len(Prog(Top(k).op))]
    /\ UNCHANGED << config, second, store, gil, caller, is_done, phase,
                    futures, held, probesLeft, data, ghost >>

\* the host callback returns Err and unwrap_or_else (SimNeurons) or expect
\* (SimProcess, SimPyFunc) panics; the panic unwinds through create_future, run_step_async and
\* notify_when_done, whose is_done.set() is never reached
CallbackPanic(k) ==
    /\ phase[k] = "operators"
    /\ InStep(k)
    /\ ipc[k] <= Len(Prog(Top(k).op))
    /\ Instr(k).t = "call"
    /\ phase' = [phase EXCEPT ![k] = "panicked"]
    /\ held' = [held EXCEPT ![k] = << >>]
    /\ gil' = (IF gil = k THEN 0 ELSE gil)
    /\ UNCHANGED << config, second, store, caller, is_done, futures, ipc, probesLeft, data,
                    ghost >>

\* step() returns: the Shared future completes and the poll that drove it
\* sees Ready (an entry of the parent's dependencies, or of the top level)
StepEnd(k) ==
    /\ phase[k] = "operators"
    /\ InStep(k)
    /\ ipc[k] > Len(Prog(Top(k).op))
    /\ LET i == Top(k).op
           via == Top(k).via
       IN /\ fut' = [fut EXCEPT ![k][i] = "complete"]
          /\ finished' = [finished EXCEPT ![k][i] = @ + 1]
          /\ stack' = [stack EXCEPT ![k] = Pop(k)]
          /\ IF Len(stack[k]) = 1
             THEN /\ top' = [top EXCEPT ![k] = @ \ {i}]
                  /\ pending' = pending
             ELSE /\ pending' = [pending EXCEPT
                                   ![k][stack[k][Len(stack[k]) - 1].op] = @ \ {via}]
                  /\ top' = top
    /\ UNCHANGED << config, second, store, gil, caller, is_done, phase, ipc, held, probesLeft,
                    data, started >>

\* run_step_async, lines 381-382: run_operators is over, the probe futures
\* are collected into a FuturesUnordered
OperatorsDone(k) ==
    /\ phase[k] = "operators"
    /\ OperatorsAwaited(k)
    /\ phase' = [phase EXCEPT ![k] = "probes"]
    /\ probesLeft' = [probesLeft EXCEPT ![k] = Probes]
    /\ UNCHANGED << config, second, store, gil, caller, is_done, futures, ipc, held, data, ghost >>

\* probe_async: probe.write().unwrap().probe(), which takes a read lease
\* on the target for the time of the clone
Probe(k, p) ==
    /\ phase[k] = "probes"
    /\ p \in probesLeft[k]
    /\ Grantable("R", ProbeTarget(p))
    /\ data' = [data EXCEPT ![p] = Sampled(@, k)]
    /\ probesLeft' = [probesLeft EXCEPT ![k] = @ \ {p}]
    /\ UNCHANGED << config, second, store, gil, caller, is_done, phase, futures, ipc, held, ghost >>

\* notify_when_done: `fut.await` is over, is_done.set()
Notify(k) ==
    /\ phase[k] = "probes"
    /\ ProbesAwaited(k)
    /\ set_value(TRUE)
    /\ phase' = [phase EXCEPT ![k] = "done"]
    /\ UNCHANGED << config, second, store, gil, caller, futures, ipc, held, probesLeft, data, ghost >>

(* --------------------------- the specification -------------------------- *)

Next ==
    \/ \E n \in 1 .. MaxSteps : RunSteps(n)
    \/ Clear
    \/ Spawn
    \/ WaitReturn
    \/ NextIteration
    \/ \E k \in TaskIds : BuildTasks(k)
    \/ \E k \in TaskIds : BuildPanic(k)
    \/ \E k \in TaskIds : \E i \in Ops : PollTop(k, i)
    \/ \E k \in TaskIds : \E e \in 1 .. NOps : PollDep(k, e)
    \/ \E k \in TaskIds : StepBegin(k)
    \/ \E k \in TaskIds : Acquire(k)
    \/ \E k \in TaskIds : LeasePanic(k)
    \/ \E k \in TaskIds : Drop(k)
    \/ \E k \in TaskIds : AcquireGil(k)
    \/ \E k \in TaskIds : ReleaseGil(k)
    \/ \E k \in TaskIds : CallbackOk(k)
    \/ \E k \in TaskIds : CallbackPanic(k)
    \/ \E k \in TaskIds : StepEnd(k)
    \/ \E k \in TaskIds : OperatorsDone(k)
    \/ \E k \in TaskIds : \E p \in Probes : Probe(k, p)
    \/ \E k \in TaskIds : Notify(k)

Spec == Init /\ [][Next]_vars

(* ------------------------- a second caller thread ---------------------- *)

\* Engine::run_step and Engine::reset take &self, and Engine is Sync: a
\* second thread can call either of them once, at any time.

\* three shapes of graph: no dependencies, a chain, and a list that names
\* its own operator
FlatGraph == [i \in Ops |-> << >>]
ChainGraph == [i \in Ops |-> IF i = 0 THEN << >> ELSE << i - 1 >>]
SelfGraph == [i \in Ops |-> IF i = NOps - 1 THEN << i >> ELSE << >>]

InitSmall ==
    /\ deps \in {FlatGraph, ChainGraph, SelfGraph}
    /\ \E shift \in 0 .. (Len(Catalogue) - 1) :
           kind = [i \in Ops |-> KindAt(shift, i)]
    /\ Start
    /\ Unbuilt(0)
    /\ val = Untracked

\* some step so far has failed: its task panicked
SomeStepFailed == \E k \in TaskIds : phase[k] = "panicked"

\* the second thread calls Engine::run_step (which is run_threaded)
RunStep2 ==
    /\ pc2 = "idle"
    /\ spawned < MaxSteps
    /\ pc2' = "clear"
    /\ late' = SomeStepFailed
    /\ UNCHANGED << config, store, gil, caller, is_done, tasks, data, ghost,
                    rpos, task2 >>

\* run_threaded, first statement, on the second thread
Clear2 ==
    /\ pc2 = "clear"
    /\ set_value(FALSE)
    /\ pc2' = "spawn"
    /\ UNCHANGED << config, store, gil, caller, tasks, data, ghost, rpos,
                    late, task2 >>

\* run_threaded, second statement, on the second thread
Spawn2 ==
    /\ pc2 = "spawn"
    /\ spawned < MaxSteps
    /\ spawned' = spawned + 1
    /\ phase' = [phase EXCEPT ![spawned + 1] = "queued"]
    /\ task2' = spawned + 1
    /\ pc2' = "wait"
    /\ UNCHANGED << config, store, gil, pc, remaining, is_done, fut, stack,
                    pending, top, ipc, held, probesLeft, data, ghost, rpos,
                    late >>

\* run_threaded, third statement, on the second thread
WaitReturn2 ==
    /\ pc2 = "wait"
    /\ WaitOver
    /\ pc2' = "gone"
    /\ UNCHANGED << config, store, gil, caller, is_done, tasks, data, ghost,
                    rpos, late, task2 >>

\* the second thread calls Engine::reset
Reset2 ==
    /\ pc2 = "idle"
    /\ pc2' = "reset"
    /\ rpos' = 1
    /\ UNCHANGED << config, store, gil, caller, is_done, tasks, data, ghost,
                    late, task2 >>

\* Engine::reset on the second thread resets the next signal of the list:
\* ScalarSignal::reset and ArraySignal::reset take the signal's write lease
\* (ArraySignal::reset after Python::acquire_gil()) for the assignment
Reset2Signal ==
    /\ pc2 = "reset"
    /\ rpos <= Len(SignalList)
    /\ Grantable("W", SignalList[rpos])
    /\ SignalList[rpos] \in {SigA, SigB} => gil = 0
    /\ val' = ResetSignal(val, SignalList[rpos])
    /\ rpos' = rpos + 1
    /\ UNCHANGED << config, built, resetAt, gil, caller, is_done, tasks,
                    data, ghost, pc2, late, task2 >>

\* Engine::reset on the second thread returns
Reset2Return ==
    /\ pc2 = "reset"
    /\ rpos > Len(SignalList)
    /\ pc2' = "gone"
    /\ UNCHANGED << config, store, gil, caller, is_done, tasks, data, ghost,
                    rpos, late, task2 >>

NextTwo ==
    \/ Next
    \/ RunStep2
    \/ Clear2
    \/ Spawn2
    \/ WaitReturn2
    \/ Reset2
    \/ Reset2Signal
    \/ Reset2Return

SpecTwo == InitSmall /\ [][NextTwo]_vars

(* ------------------------------ Engine::reset -------------------------- *)

\* a reset that also empties the probes
EngineResetClearing ==
    /\ pc = "idle"
    /\ \A n \in DOMAIN SignalList : Grantable("W", SignalList[n])
    /\ gil = 0
    /\ val' = ResetFrom(val, 1)
    /\ resetAt' = spawned
    /\ data' = [p \in Probes |-> << >>]
    /\ UNCHANGED << config, second, built, gil, caller, is_done, tasks, ghost >>

\* Engine::reset, called by the first caller between its run_steps calls:
\* every signal of the list is reset in turn (each reset takes the write
\* lease of its signal, ArraySignal::reset also the host's lock; with no
\* step in flight all of them are free)
EngineReset ==
    /\ pc = "idle"
    /\ \A n \in DOMAIN SignalList : Grantable("W", SignalList[n])
    /\ gil = 0
    /\ val' = ResetFrom(val, 1)
    /\ resetAt' = spawned
    /\ UNCHANGED << config, second, built, gil, caller, is_done, tasks, data,
                    ghost >>

\* as constructed: the scalars hold their initial_value (ScalarSignal::new),
\* the contents of the arrays are not followed until they are reset
InitReset ==
    /\ deps \in {FlatGraph, ChainGraph, SelfGraph}
    /\ \E shift \in 0 .. (Len(Catalogue) - 1) :
           kind = [i \in Ops |-> KindAt(shift, i)]
    /\ Start
    /\ \E step0 \in 0 .. 1 : Unbuilt(step0)
    /\ val = [s \in Signals |->
                IF s \in {SigStep, SigTime} THEN initial_value[s] ELSE Unknown]

NextReset == Next \/ EngineReset

SpecReset == InitReset /\ [][NextReset]_vars

(* --------------------------- arrays and views --------------------------- *)

\* most views constructed
MaxViews == 1

\* ndarray's SliceOrIndex::Slice { start, step, end: Some(end) }
SliceInfo(start, step, end) == [start |-> start, step |-> step, end |-> end]

\* the slices tried on a base of the given length: every other element
\* from the first one on, and the elements from the second to the last but
\* one; empty ones are left out
ValidSlices(len) ==
    { sl \in { SliceInfo(a, 2 - a, len - a) : a \in 0 .. 1 } :
        sl.start < sl.end }

\* the positions of the base (counted from 1) that a slice selects, in
\* order: start, start + step, ... below end
RECURSIVE PositionsFrom(_, _)
PositionsFrom(sl, at) ==
    IF at >= sl.end THEN << >>
    ELSE << at + 1 >> \o PositionsFrom(sl, at + sl.step)

Positions(sl) == PositionsFrom(sl, sl.start)

\* base.slice(slice): the elements at the selected positions
Sliced(arr, sl) ==
    LET pos == Positions(sl) IN [n \in 1 .. Len(pos) |-> arr[pos[n]]]

\* an assignment that takes the slice for a contiguous block at its start
AssignContiguous(arr, sl, src) ==
    [j \in DOMAIN arr |->
        IF j > sl.start /\ j <= sl.start + Len(src)
        THEN src[j - sl.start] ELSE arr[j]]

\* base.slice_mut(slice).assign(src): the selected positions take the
\* elements of src, in order; the others keep theirs
AssignSlice(arr, sl, src) ==
    LET pos == Positions(sl)
    IN [j \in DOMAIN arr |->
           IF \E n \in DOMAIN pos : pos[n] = j
           THEN src[CHOOSE n \in DOMAIN pos : pos[n] = j]
           ELSE arr[j]]

\* the arrays a caller writes: every element the same, or a ramp that
\* starts at any element and wraps around
Sources(len) ==
    { [x \in 1 .. len |-> e] : e \in Elems }
    \cup { [x \in 1 .. len |-> (x + e) % (MaxElem + 1)] : e \in Elems }

\* the signals the caller holds: the step counter, both arrays, the views
Refs ==
    { ScalarRef(SigStep) }
    \cup { OwnedRef(s) : s \in {SigA, SigB} }
    \cup { ViewRef(i) : i \in DOMAIN views }

\* ArraySignal.shape (one axis here): its length
LenOf(ref) ==
    IF ref.kind = "view" THEN Len(Positions(views[ref.idx].slice))
    ELSE ShapeOf(ref.name)

\* a constructor that wraps whatever base it is given
NewViewUnchecked(vs, base, slice) ==
    Append(vs, [base |-> base, slice |-> slice])

\* ArraySignal::new_view: a base whose buffer is itself a View makes the
\* constructor panic ("Transitive array views are not supported."), and no
\* signal comes out of it; an owned base gives ArrayRef::View(base, slice)
NewViewResult(vs, base, slice) ==
    IF base.kind = "view" THEN vs
    ELSE Append(vs, [base |-> base, slice |-> slice])

NewView(base, slice) ==
    /\ base.kind = "view" \/ Len(views) < MaxViews
    /\ views' = NewViewResult(views, base, slice)
    /\ last' = Called(IF views' = views THEN "panicked" ELSE "built", base)
    /\ UNCHANGED << config, second, val, initial_value, resetAt, gil, caller,
                    is_done, tasks, data, ghost >>

\* ArrayRef::clone_array (what reading the signal gives): the buffer of an
\* owned array, the slice of its base's buffer for a view; a scalar's value.
\* A view of a view has nothing to read (clone_array panics).
ReadSignal(ref) ==
    IF ref.kind # "view" THEN val[ref.name]
    ELSE IF views[ref.idx].base.kind # "owned" THEN Unknown
    ELSE Sliced(val[views[ref.idx].base.name], views[ref.idx].slice)

\* signal.write().assign_array(src) for an array (ArrayRef::assign_array),
\* `*signal.write() = src[1]` for a scalar: an owned buffer takes src, a
\* view assigns src into the slice of its base's buffer (panics on a base
\* that is a view)
Written(v, ref, src) ==
    IF ref.kind # "view" THEN [v EXCEPT ![ref.name] = src]
    ELSE IF views[ref.idx].base.kind # "owned" THEN v
    ELSE [v EXCEPT ![views[ref.idx].base.name] =
                       AssignSlice(@, views[ref.idx].slice, src)]

WriteSignal(ref, src) ==
    /\ val' = Written(val, ref, src)
    /\ last' = Called("write", ref)
    /\ UNCHANGED << config, second, initial_value, views, resetAt, gil,
                    caller, is_done, tasks, data, ghost >>

\* ArraySignal::reset of a view: new_view set initial_value to None, so
\* `if let Some(initial_value)` skips the assignment
ResetView(v, view) == v

\* Signal::reset called on one signal
ResetOne(ref) ==
    /\ val' = IF ref.kind = "view" THEN ResetView(val, views[ref.idx])
              ELSE ResetSignal(val, ref.name)
    /\ last' = Called(IF last.ref = ref /\ last.call \in {"reset", "reset again"}
                      THEN "reset again" ELSE "reset", ref)
    /\ UNCHANGED << config, second, initial_value, views, resetAt, gil,
                    caller, is_done, tasks, data, ghost >>

\* as constructed: the scalars hold their initial_value; the buffer of an
\* owned array is Array::uninitialized, so it holds anything
InitValues ==
    /\ deps = FlatGraph
    /\ kind = [i \in Ops |-> KindAt(0, i)]
    /\ Start
    /\ Unbuilt(0)
    /\ \E a \in Arrays(ShapeOf(SigA)), b \in Arrays(ShapeOf(SigB)) :
           val = [s \in Signals |->
                    IF s = SigA THEN a
                    ELSE IF s = SigB THEN b
                    ELSE initial_value[s]]

NextValues ==
    \/ \E base \in Refs : \E slice \in ValidSlices(LenOf(base)) :
           base.kind # "scalar" /\ NewView(base, slice)
    \/ \E ref \in Refs : \E src \in Sources(LenOf(ref)) : WriteSignal(ref, src)
    \/ \E ref \in Refs : ResetOne(ref)

SpecValues == InitValues /\ [][NextValues]_vars

\* engines of host-callback operators, whose callbacks may also return None
NextHost == Next \/ \E k \in TaskIds : CallbackNone(k)

SpecHost == InitHost /\ [][NextHost]_vars

(* ------------------------------- probes ---------------------------------- *)

\* most samples the probes record between them
MaxSamples == 2

\* the probe a caller holds (SignalProbe.signal is its target)
ProbeHandle(p) == [kind |-> "probe", name |-> ProbeTarget(p), idx |-> p]

\* the signal a probe was constructed on
TargetRef(p) ==
    IF ShapeOf(ProbeTarget(p)) = 1 THEN ScalarRef(ProbeTarget(p))
    ELSE OwnedRef(ProbeTarget(p))

RECURSIVE SamplesIn(_, _)
SamplesIn(d, P) ==
    IF P = {} THEN 0
    ELSE LET p == CHOOSE x \in P : TRUE
         IN Len(d[p]) + SamplesIn(d, P \ {p})

\* a push of a reference to the target's buffer: every sample recorded
\* through it reads as the buffer does now
PushedShared(d, value) == [n \in 1 .. (Len(d) + 1) |-> value]

\* `self.data.push(self.signal.read().clone())` (array) and
\* `self.data.push(*self.signal.read())` (scalar): the vector grows by an
\* owned copy of the value
Pushed(d, value) == Append(d, value)

\* SignalProbe::probe
ProbeSignal(p) ==
    /\ SamplesIn(data, Probes) < MaxSamples
    /\ data' = [data EXCEPT ![p] = Pushed(@, ReadSignal(TargetRef(p)))]
    /\ last' = Called("probe", ProbeHandle(p))
    /\ UNCHANGED << config, second, val, initial_value, views, resetAt, gil,
                    caller, is_done, tasks, ghost >>

\* SignalProbe::get_data hands out `&self.data`; PyProbe::get_data assigns
\* the samples one by one into a fresh array of shape [len] ++ shape
GetData(p) ==
    /\ last' = Called("get_data", ProbeHandle(p))
    /\ UNCHANGED << config, second, val, initial_value, views, resetAt, gil,
                    caller, is_done, tasks, data, ghost >>

\* the probed signals as constructed and reset (test it_can_probe_*)
InitProbe ==
    /\ deps = FlatGraph
    /\ kind = [i \in Ops |-> KindAt(0, i)]
    /\ Start
    /\ Unbuilt(0)
    /\ val = initial_value

NextProbe ==
    \/ \E p \in Probes : ProbeSignal(p)
    \/ \E p \in Probes : GetData(p)
    \/ \E p \in Probes : \E src \in Sources(ShapeOf(ProbeTarget(p))) :
           WriteSignal(TargetRef(p), src)
    \/ \E p \in Probes : ResetOne(TargetRef(p))

SpecProbe == InitProbe /\ [][NextProbe]_vars

(* ------------------------- operator arithmetic -------------------------- *)

\* An ndarray: its shape and its elements in row-major order.  The value of
\* a ScalarSignal has the shape << >> and one element.
Nd(shape, elems) == [shape |-> shape, elems |-> elems]

\* what a computation that panicked leaves behind: no array
NoArray == Nd(<< >>, << >>)

RECURSIVE Product(_)
Product(shape) ==
    IF shape = << >> THEN 1 ELSE Head(shape) * Product(Tail(shape))

\* the multi-index (from 0) of the n-th element (from 0) in row-major order
RECURSIVE Unravel(_, _)
Unravel(n, shape) ==
    IF shape = << >> THEN << >>
    ELSE LET inner == Product(Tail(shape))
         IN << n \div inner >> \o Unravel(n % inner, Tail(shape))

\* the position (from 0) of a multi-index in row-major order
RECURSIVE Ravel(_, _)
Ravel(index, shape) ==
    IF shape = << >> THEN 0
    ELSE Head(index) * Product(Tail(shape)) + Ravel(Tail(index), Tail(shape))

\* ndarray's broadcast rule: the axes are aligned at the end, and each axis
\* of the source has the length of the target's or length 1
CanBroadcast(from, to) ==
    /\ Len(from) <= Len(to)
    /\ \A k \in 1 .. Len(from) :
          from[k] = to[k + Len(to) - Len(from)] \/ from[k] = 1

\* ArrayBase::broadcast(shape): an axis of length 1 repeats its element
Broadcast(arr, to) ==
    IF arr = NoArray \/ ~ CanBroadcast(arr.shape, to) THEN NoArray
    ELSE LET off == Len(to) - Len(arr.shape)
             at(n) ==
                 LET ix == Unravel(n - 1, to)
                 IN Ravel([k \in 1 .. Len(arr.shape) |->
                              IF arr.shape[k] = 1 THEN 0 ELSE ix[k + off]],
                          arr.shape) + 1
         IN Nd(to, [n \in 1 .. Product(to) |-> arr.elems[at(n)]])

\* ndarray `&a * &b`: b is broadcast to the shape of a (a panic when it
\* cannot be), then the elements are multiplied pairwise
MulArrays(a, b) ==
    LET bb == Broadcast(b, a.shape)
    IN IF a = NoArray \/ bb = NoArray THEN NoArray
       ELSE Nd(a.shape, [n \in DOMAIN a.elems |-> a.elems[n] * bb.elems[n]])

\* ndarray `&a * x` for a scalar x
MulScalar(a, x) == Nd(a.shape, [n \in DOMAIN a.elems |-> a.elems[n] * x])

\* ndarray `a += &b` (ArrayRef::add_assign on an owned buffer): b is
\* broadcast to the shape of a (a panic when it cannot be)
AddArrays(a, b) ==
    LET bb == Broadcast(b, a.shape)
    IN IF a = NoArray \/ bb = NoArray THEN NoArray
       ELSE Nd(a.shape, [n \in DOMAIN a.elems |-> a.elems[n] + bb.elems[n]])

\* ndarray `a.assign(&b)` (ArrayRef::assign_array on an owned buffer)
AssignArray(a, b) == Broadcast(b, a.shape)

\* a product that never treats an operand as a scalar
mul_view_plain(lhs, rhs) == MulArrays(lhs, rhs)

\* signal.rs mul_view: an operand of shape [1] multiplies the other as a
\* scalar; any other pair goes to ndarray's `lhs * rhs`
mul_view(lhs, rhs) ==
    IF lhs.shape = << 1 >> /\ rhs.shape = << 1 >> THEN MulArrays(lhs, rhs)
    ELSE IF lhs.shape = << 1 >> THEN MulScalar(rhs, lhs.elems[1])
    ELSE IF rhs.shape = << 1 >> THEN MulScalar(lhs, rhs.elems[1])
    ELSE MulArrays(lhs, rhs)

\* a sum of products that stops after the first one
DotFirst(a, off, b, j) == a[off + j] * b[j]

\* the sum of a[off + j] * b[j] over the positions j, j + 1, ... of b
RECURSIVE DotFrom(_, _, _, _)
DotFrom(a, off, b, j) ==
    IF j > Len(b) THEN 0
    ELSE a[off + j] * b[j] + DotFrom(a, off, b, j + 1)

\* ArrayRef::dot_array_1d (rhs has one axis): a vector gives the one-element
\* array of the inner product, a matrix the vector of its rows' inner
\* products; any other rank panics ("Invalid array dimensionality."), and
\* so does ndarray's dot on lengths that do not agree
dot_array_1d(lhs, rhs) ==
    IF Len(lhs.shape) = 1
    THEN IF lhs.shape # rhs.shape THEN NoArray
         ELSE Nd(<< 1 >>, << DotFrom(lhs.elems, 0, rhs.elems, 1) >>)
    ELSE IF Len(lhs.shape) = 2
    THEN IF lhs.shape[2] # rhs.shape[1] THEN NoArray
         ELSE Nd(<< lhs.shape[1] >>,
                 [i \in 1 .. lhs.shape[1] |->
                    DotFrom(lhs.elems, (i - 1) * lhs.shape[2], rhs.elems, 1)])
    ELSE NoArray

\* ArrayRef::dot: a right operand that is not a vector panics ("Only
\* matrix-vector multiplies supported.")
dot(lhs, rhs) ==
    IF Len(rhs.shape) = 1 THEN dot_array_1d(lhs, rhs) ELSE NoArray

(* ------------------------ operators on a fixture ------------------------ *)

\* The signals of an operator under test: three arrays (target, left and
\* right of ElementwiseInc and DotInc; left is also src, input and x, target
\* also dst and output), the time t and a pair of scalars for the scalar
\* CopyOp.
OpTarget == "target"
OpLeft == "left"
OpRight == "right"
OpT == "t"
OpSrc == "src"
OpDst == "dst"
OpSignals == { OpTarget, OpLeft, OpRight, OpT, OpSrc, OpDst }

\* the shapes the arrays take: one element, two lengths of vector, a
\* matrix, and an array of three axes
OpShapes ==
    { << 1 >>, << ArrLen - 1 >>, << ArrLen >>, << ArrLen - 1, ArrLen >>,
      << 1, 1, ArrLen >> }

\* an array holding e everywhere
Filled(shape, e) == Nd(shape, [n \in 1 .. Product(shape) |-> e])

\* an array counting up from e, wrapping around
Ramp(shape, e) ==
    Nd(shape, [n \in 1 .. Product(shape) |-> (n + e) % (MaxElem + 1)])

Scalar(x) == Nd(<< >>, << x >>)

\* the values the written array starts with, and those of the arrays read
Targets == { Filled(sh, e) : sh \in OpShapes, e \in Elems }
Operands == Targets \cup { Ramp(sh, e) : sh \in OpShapes, e \in Elems }

Fixture(target, left, right, t, src, dst) ==
    [s \in OpSignals |->
        IF s = OpTarget THEN target
        ELSE IF s = OpLeft THEN left
        ELSE IF s = OpRight THEN right
        ELSE IF s = OpT THEN Scalar(t)
        ELSE IF s = OpSrc THEN Scalar(src)
        ELSE Scalar(dst)]

\* the signals after reset(): the arrays of an array operator's test, or
\* the scalars of the scalar CopyOp's
Fixtures ==
    { Fixture(tg, l, r, MaxElem, 0, 0) :
        tg \in Targets, l \in Operands, r \in Operands }
    \cup { Fixture(Filled(<< 1 >>, 0), Filled(<< 1 >>, 0), Filled(<< 1 >>, 0),
                   t, s, d) : t \in Elems, s \in Elems, d \in Elems }

\* the operator stepped: its kind, its flags, the arguments its callback
\* got and what the callback returned (<< >>: None, << r >>: the array r)
OperatorRun(name, flags, args, result) ==
    [kind |-> name, flags |-> flags, args |-> args, result |-> result]

\* One step() of an operator that writes the signal `out`: the buffer takes
\* the new contents, or the step panicked before the write.
Stepped(op, out, new) ==
    /\ last.call = "none"
    /\ val' = IF new = NoArray THEN val ELSE [val EXCEPT ![out] = new]
    /\ last' = Called(IF new = NoArray THEN "panicked" ELSE "stepped", op)
    /\ UNCHANGED << config, second, initial_value, views, resetAt, gil,
                    caller, is_done, tasks, data, ghost >>

\* ElementwiseInc::step: `**target += &(&**left * &**right)`
StepElementwiseInc ==
    Stepped(OperatorRun("ElementwiseInc", << >>, << >>, << >>), OpTarget,
            AddArrays(val[OpTarget], mul_view(val[OpLeft], val[OpRight])))

\* DotInc::step: `**target += &(**left).dot(&**right)`
StepDotInc ==
    Stepped(OperatorRun("DotInc", << >>, << >>, << >>), OpTarget,
            AddArrays(val[OpTarget], dot(val[OpLeft], val[OpRight])))

\* a copy that ignores `inc`
CopiedAssigning(inc, scalar, dst, src) ==
    IF scalar THEN src ELSE AssignArray(dst, src)

\* CopyOp::step, for ArraySignal (`+=` or assign) and for ScalarSignal
\* (`+=` or `=`)
Copied(inc, scalar, dst, src) ==
    IF scalar
    THEN IF inc THEN Scalar(dst.elems[1] + src.elems[1]) ELSE src
    ELSE IF inc THEN AddArrays(dst, src) ELSE AssignArray(dst, src)

StepCopyOp(inc, scalar) ==
    LET src == IF scalar THEN OpSrc ELSE OpLeft
        dst == IF scalar THEN OpDst ELSE OpTarget
    IN Stepped(OperatorRun("CopyOp", << inc, scalar >>, << >>, << >>), dst,
               Copied(inc, scalar, val[dst], val[src]))

\* what a callback may return for an output of the given shape: None, or an
\* array of that shape
Results(shape) == { << >> } \cup { << Filled(shape, e) >> : e \in Elems }

\* SimProcess::step, lines 29-36: the tuple handed to step_fn
SimProcessArgs(v, with_input) ==
    IF with_input THEN << v[OpT], v[OpLeft] >> ELSE << v[OpT] >>

\* an output that is always assigned
ProcessOutputAssigning(mode_inc, output, result) ==
    IF result = << >> THEN output ELSE AssignArray(output, result[1])

\* SimProcess::step, lines 45-52: nothing on None; `+=` or assign_array
ProcessOutput(mode_inc, output, result) ==
    IF result = << >> THEN output
    ELSE IF mode_inc THEN AddArrays(output, result[1])
    ELSE AssignArray(output, result[1])

StepSimProcess(mode_inc, with_input, result) ==
    Stepped(OperatorRun("SimProcess", << mode_inc, with_input >>,
                     SimProcessArgs(val, with_input), result),
            OpTarget, ProcessOutput(mode_inc, val[OpTarget], result))

\* SimPyFunc::step, lines 27-39: the tuple handed to py_fn.  x is looked at
\* only inside the arm `Some(t)`.
SimPyFuncArgs(v, with_t, with_x) ==
    IF with_t
    THEN IF with_x THEN << v[OpT], v[OpLeft] >> ELSE << v[OpT] >>
    ELSE << >>

\* SimPyFunc::step, lines 48-51
PyFuncOutput(output, result) ==
    IF result = << >> THEN output ELSE AssignArray(output, result[1])

StepSimPyFunc(with_t, with_x, result) ==
    Stepped(OperatorRun("SimPyFunc", << with_t, with_x >>,
                     SimPyFuncArgs(val, with_t, with_x), result),
            OpTarget, PyFuncOutput(val[OpTarget], result))

InitOps ==
    /\ deps = FlatGraph
    /\ kind = [i \in Ops |-> KindAt(0, i)]
    /\ Start
    /\ Unbuilt(0)
    /\ val \in Fixtures

NextOps ==
    \/ StepElementwiseInc
    \/ StepDotInc
    \/ \E inc \in BOOLEAN, scalar \in BOOLEAN : StepCopyOp(inc, scalar)
    \/ \E mode_inc \in BOOLEAN, with_input \in BOOLEAN :
           \E result \in Results(val[OpTarget].shape) :
               StepSimProcess(mode_inc, with_input, result)
    \/ \E with_t \in BOOLEAN, with_x \in BOOLEAN :
           \E result \in Results(val[OpTarget].shape) :
               StepSimPyFunc(with_t, with_x, result)

SpecOps == InitOps /\ [][NextOps]_vars

(* ----------------------- run_steps and run_step calls ------------------- *)

\* the values of n_steps tried (an i64): negative, zero and positive ones
StepCounts == (0 - 1) .. MaxSteps

\* a loop over the inclusive range 0 ..= n_steps
IterationsInclusive(n) == IF n >= 0 THEN n + 1 ELSE 0

\* `for _ in 0..n_steps`: the range is empty when n_steps <= 0
Iterations(n) == IF n > 0 THEN n ELSE 0

\* what the call in progress (or the last one) was asked, and the number
\* of steps the engine had made when it was called
Asked(n) == [kind |-> "engine", name |-> "-", idx |-> 0, n |-> n, at |-> spawned]

\* Engine::run_steps(n_steps), for any n_steps
RunStepsCall(n) ==
    /\ pc = "idle"
    /\ spawned + Iterations(n) <= MaxSteps
    /\ remaining' = Iterations(n)
    /\ pc' = IF Iterations(n) > 0 THEN "clear" ELSE "idle"
    /\ last' = Called("run_steps", Asked(n))
    /\ UNCHANGED << config, second, val, initial_value, views, resetAt, gil,
                    spawned, is_done, tasks, data, ghost >>

\* Engine::run_step, called directly: run_threaded once
RunStepCall ==
    /\ pc = "idle"
    /\ spawned < MaxSteps
    /\ remaining' = 1
    /\ pc' = "clear"
    /\ last' = Called("run_step", Asked(1))
    /\ UNCHANGED << config, second, val, initial_value, views, resetAt, gil,
                    spawned, is_done, tasks, data, ghost >>

NextSteps ==
    \/ \E n \in StepCounts : RunStepsCall(n)
    \/ RunStepCall
    \/ Clear
    \/ Spawn
    \/ WaitReturn
    \/ NextIteration
    \/ \E k \in TaskIds : BuildTasks(k)
    \/ \E k \in TaskIds : BuildPanic(k)
    \/ \E k \in TaskIds : \E i \in Ops : PollTop(k, i)
    \/ \E k \in TaskIds : \E e \in 1 .. NOps : PollDep(k, e)
    \/ \E k \in TaskIds : StepBegin(k)
    \/ \E k \in TaskIds : Acquire(k)
    \/ \E k \in TaskIds : LeasePanic(k)
    \/ \E k \in TaskIds : Drop(k)
    \/ \E k \in TaskIds : AcquireGil(k)
    \/ \E k \in TaskIds : ReleaseGil(k)
    \/ \E k \in TaskIds : CallbackOk(k)
    \/ \E k \in TaskIds : CallbackPanic(k)
    \/ \E k \in TaskIds : StepEnd(k)
    \/ \E k \in TaskIds : OperatorsDone(k)
    \/ \E k \in TaskIds : \E p \in Probes : Probe(k, p)
    \/ \E k \in TaskIds : Notify(k)

SpecSteps == InitReset /\ [][NextSteps]_vars

(* ------------------ the Event latch, Mutex and Condvar ------------------ *)

\* Here Event::wait is followed through its loop.  A caller about to call
\* wait() is at "wait"; inside cvar.wait (the mutex given up) it is
\* "parked"; woken up and about to take the mutex again it is "woken".
\* set_value runs under the mutex, and so does the test of the flag up to
\* the moment cvar.wait has parked the thread: each is one step.

\* a set_value that notifies nobody
WokenNever(p, changed) == p

\* Event::set_value, `if *finished != value { ...; cvar.notify_all() }`:
\* where a thread at p is after the call
Woken(p, changed) == IF changed /\ p = "parked" THEN "woken" ELSE p

\* Event::wait, `while !*finished { finished = cvar.wait(finished) }`: the
\* flag is tested on entry and after every wake-up
WaitTest ==
    /\ pc \in {"wait", "woken"}
    /\ pc' = IF is_done THEN "returned" ELSE "parked"
    /\ UNCHANGED << config, second, store, gil, remaining, spawned, is_done,
                    tasks, data, ghost >>

WaitTest2 ==
    /\ pc2 \in {"wait", "woken"}
    /\ pc2' = IF is_done THEN "gone" ELSE "parked"
    /\ UNCHANGED << config, store, gil, caller, is_done, tasks, data, ghost,
                    rpos, late, task2 >>

\* Condvar::wait may return without a notification
SpuriousWake ==
    /\ pc = "parked"
    /\ pc' = "woken"
    /\ UNCHANGED << config, second, store, gil, remaining, spawned, is_done,
                    tasks, data, ghost >>

SpuriousWake2 ==
    /\ pc2 = "parked"
    /\ pc2' = "woken"
    /\ UNCHANGED << config, store, gil, caller, is_done, tasks, data, ghost,
                    rpos, late, task2 >>

\* run_threaded, first statement: is_done.clear(), which notifies when it
\* changes the flag
ClearNotifying ==
    /\ pc = "clear"
    /\ set_value(FALSE)
    /\ pc' = "spawn"
    /\ pc2' = Woken(pc2, is_done # FALSE)
    /\ UNCHANGED << config, store, gil, remaining, spawned, tasks, data,
                    ghost, rpos, late, task2 >>

Clear2Notifying ==
    /\ pc2 = "clear"
    /\ set_value(FALSE)
    /\ pc2' = "spawn"
    /\ pc' = Woken(pc, is_done # FALSE)
    /\ UNCHANGED << config, store, gil, remaining, spawned, tasks, data,
                    ghost, rpos, late, task2 >>

\* notify_when_done: `fut.await` is over, is_done.set()
NotifySet(k) ==
    /\ phase[k] = "probes"
    /\ ProbesAwaited(k)
    /\ set_value(TRUE)
    /\ phase' = [phase EXCEPT ![k] = "done"]
    /\ pc' = Woken(pc, is_done # TRUE)
    /\ pc2' = Woken(pc2, is_done # TRUE)
    /\ UNCHANGED << config, store, gil, remaining, spawned, futures, ipc,
                    held, probesLeft, data, ghost, rpos, late, task2 >>

\* an engine whose steps all run through: a chain of the first operators of
\* the catalogue
InitEvent ==
    /\ deps = ChainGraph
    /\ kind = [i \in Ops |-> KindAt(0, i)]
    /\ Start
    /\ Unbuilt(0)
    /\ val = Untracked

NextEvent ==
    \/ RunSteps(1)
    \/ ClearNotifying
    \/ Spawn
    \/ WaitTest
    \/ SpuriousWake
    \/ NextIteration
    \/ RunStep2
    \/ Clear2Notifying
    \/ Spawn2
    \/ WaitTest2
    \/ SpuriousWake2
    \/ \E k \in TaskIds : BuildTasks(k)
    \/ \E k \in TaskIds : \E i \in Ops : PollTop(k, i)
    \/ \E k \in TaskIds : \E e \in 1 .. NOps : PollDep(k, e)
    \/ \E k \in TaskIds : StepBegin(k)
    \/ \E k \in TaskIds : Acquire(k)
    \/ \E k \in TaskIds : Drop(k)
    \/ \E k \in TaskIds : StepEnd(k)
    \/ \E k \in TaskIds : OperatorsDone(k)
    \/ \E k \in TaskIds : \E p \in Probes : Probe(k, p)
    \/ \E k \in TaskIds : NotifySet(k)

\* A thread that can run does run: a caller at the test of the flag (on
\* entry to wait, or woken up) gets the mutex and makes the test.
SpecEvent ==
    /\ InitEvent
    /\ [][NextEvent]_vars
    /\ WF_vars(WaitTest)
    /\ WF_vars(WaitTest2)

(* ------------------- view descriptors and slice specs ------------------- *)

\* largest stride of a base handed to offset_to_multiindex
MaxStride == 8
\* largest element offset handed to offset_to_multiindex
MaxOffset == 10
\* largest step of a slice a view is taken with
MaxSliceStep == 2

Min(a, b) == IF a < b THEN a ELSE b

\* a conversion that divides the whole offset by every stride
offset_to_multiindex_whole(offset, base_strides) ==
    [k \in DOMAIN base_strides |-> offset \div base_strides[k]]

\* PySignalArrayViewF64::offset_to_multiindex: a scan over base_strides
\* that carries the remainder: `index = remainder / divisor`, then
\* `remainder = remainder % divisor` (isize; no operand is negative here)
RECURSIVE offset_to_multiindex(_, _)
offset_to_multiindex(offset, base_strides) ==
    IF base_strides = << >> THEN << >>
    ELSE << offset \div Head(base_strides) >>
         \o offset_to_multiindex(offset % Head(base_strides),
                                 Tail(base_strides))

\* PySignalArrayViewF64::strides_to_steps: `stride / base_stride` over the
\* zip of the two lists (as long as the shorter one)
strides_to_steps(strides, base_strides) ==
    [k \in 1 .. Min(Len(strides), Len(base_strides)) |->
        strides[k] \div base_strides[k]]

\* a slice whose end is start + step * size, whatever the base holds
SliceOfUnclipped(start, size, step, base_size) ==
    SliceInfo(start, step, start + step * size)

\* PySignalArrayViewF64::new, the closure of the map: SliceOrIndex::Slice
\* { start, step, end: Some(min(start + step * size, base_size)) }
SliceOf(start, size, step, base_size) ==
    SliceInfo(start, step, Min(start + step * size, base_size))

\* PySignalArrayViewF64::new, lines 72-87: the zip of the multi-index, the
\* view's shape, the steps and the base's shape ends with the shortest of
\* the four, and each tuple gives one slice
slice_info(d) ==
    LET starts == offset_to_multiindex(d.offset, d.base_strides)
        steps == strides_to_steps(d.strides, d.base_strides)
        n == Min(Min(Len(starts), Len(d.shape)),
                 Min(Len(steps), Len(d.base_shape)))
    IN [k \in 1 .. n |->
           SliceOf(starts[k], d.shape[k], steps[k], d.base_shape[k])]

\* what ndarray's slice() refuses with a panic: a slice list that is not as
\* long as the array has axes, a step of 0, a start or an end beyond the
\* axis
SliceFits(base_shape, info) ==
    /\ Len(info) = Len(base_shape)
    /\ \A k \in DOMAIN info :
           /\ info[k].step # 0
           /\ info[k].start <= base_shape[k]
           /\ info[k].end <= base_shape[k]

\* ArraySignal::new_view: `base.slice(slice).shape().to_vec()`, the number
\* of positions each slice selects on its axis; << >> stands for the panic
new_view_shape(base_shape, info) ==
    IF ~ SliceFits(base_shape, info) THEN << >>
    ELSE [k \in DOMAIN info |-> Len(Positions(info[k]))]

\* the strides of a row-major array of the given shape, in elements
ContiguousStrides(shape) ==
    [k \in DOMAIN shape |-> Product(SubSeq(shape, k + 1, Len(shape)))]

\* how the host indexes one axis of the given length for a view: a slice
\* start : : step of count >= 1 elements inside the axis (keep), or a
\* single index, which drops the axis from the view
AxisIndexings(len) ==
    { ix \in [start : 0 .. (len - 1), step : 1 .. MaxSliceStep,
              count : 1 .. len, keep : {TRUE}] :
        ix.start + ix.step * (ix.count - 1) < len }
    \cup [start : 0 .. (len - 1), step : {1}, count : {1}, keep : {FALSE}]

RECURSIVE SumSeq(_)
SumSeq(s) == IF s = << >> THEN 0 ELSE SumSeq(Tail(s)) + Head(s)

\* the descriptor the host's Signal carries for the view base[ix]:
\* elemoffset, elemstrides and shape of the view, elemstrides and shape of
\* its base
Descriptor(base_shape, ix) ==
    LET bs == ContiguousStrides(base_shape)
        kept == SelectSeq([k \in DOMAIN ix |-> k], LAMBDA k : ix[k].keep)
    IN [kind |-> "view",
        offset |-> SumSeq([k \in DOMAIN ix |-> ix[k].start * bs[k]]),
        strides |-> [j \in DOMAIN kept |-> ix[kept[j]].step * bs[kept[j]]],
        shape |-> [j \in DOMAIN kept |-> ix[kept[j]].count],
        base_strides |-> bs,
        base_shape |-> base_shape]

\* the views tried: of bases with one axis and with two
Descriptors ==
    UNION { { Descriptor(<< a >>, << x >>) : x \in AxisIndexings(a) } :
              a \in 1 .. ArrLen }
    \cup UNION { { Descriptor(<< a, b >>, << x, y >>) :
                     x \in AxisIndexings(a), y \in AxisIndexings(b) } :
                   a \in 1 .. ArrLen, b \in 1 .. ArrLen }

\* the stride lists tried: one to three positive strides
StrideLists ==
    UNION { [1 .. n -> 1 .. MaxStride] : n \in 1 .. 3 }

\* the calls of offset_to_multiindex tried
Offsets ==
    [kind : {"offset"}, offset : 0 .. MaxOffset, base_strides : StrideLists]

\* offset_to_multiindex is called once
OffsetToMultiindex ==
    /\ last.call = "none"
    /\ last' = Called("offset_to_multiindex",
                      [kind |-> "index",
                       idx |-> offset_to_multiindex(val.offset,
                                                    val.base_strides)])
    /\ UNCHANGED << config, second, val, initial_value, views, resetAt, gil,
                    caller, is_done, tasks, data, ghost >>

\* PySignalArrayViewF64::new is called once with the descriptor: the slice
\* list is built and ArraySignal::new_view derives the view's shape from it
\* (or panics)
NewSignalArrayView ==
    /\ last.call = "none"
    /\ val.kind = "view"
    /\ LET info == slice_info(val)
           shape == new_view_shape(val.base_shape, info)
       IN last' = Called(IF shape = << >> THEN "panicked" ELSE "built",
                         [kind |-> "SignalArrayViewF64",
                          slice |-> info, shape |-> shape])
    /\ UNCHANGED << config, second, val, initial_value, views, resetAt, gil,
                    caller, is_done, tasks, data, ghost >>

InitSlices ==
    /\ deps = FlatGraph
    /\ kind = [i \in Ops |-> KindAt(0, i)]
    /\ Start
    /\ Unbuilt(0)
    /\ val \in Offsets \cup Descriptors

NextSlices == OffsetToMultiindex \/ NewSignalArrayView

SpecSlices == InitSlices /\ [][NextSlices]_vars

(* ---------------------- run_step through the binding -------------------- *)

\* the host thread, as a holder of the host's global lock
HostCaller == MaxSteps + 1

\* PyEngine::run_step, a #[pymethods] fn: the host thread enters it holding
\* the host's global lock and nothing in it (nor in Engine::run_step and
\* run_threaded) gives the lock up
PyRunStep ==
    /\ pc = "idle"
    /\ gil = 0
    /\ spawned < MaxSteps
    /\ gil' = HostCaller
    /\ remaining' = 1
    /\ pc' = "clear"
    /\ UNCHANGED << config, second, store, spawned, is_done, tasks, data,
                    ghost >>

\* PyEngine::run_step returns to the host, which hands its lock on
PyReturn ==
    /\ pc = "returned"
    /\ gil = HostCaller
    /\ gil' = 0
    /\ remaining' = 0
    /\ pc' = "idle"
    /\ UNCHANGED << config, second, store, spawned, is_done, tasks, data,
                    ghost >>

\* the loop of a run_steps that was called without the host's lock
NativeReturn == gil # HostCaller /\ NextIteration

\* what the task of a step can do
TaskNext ==
    \/ \E k \in TaskIds : BuildTasks(k)
    \/ \E k \in TaskIds : BuildPanic(k)
    \/ \E k \in TaskIds : \E i \in Ops : PollTop(k, i)
    \/ \E k \in TaskIds : \E e \in 1 .. NOps : PollDep(k, e)
    \/ \E k \in TaskIds : StepBegin(k)
    \/ \E k \in TaskIds : Acquire(k)
    \/ \E k \in TaskIds : LeasePanic(k)
    \/ \E k \in TaskIds : Drop(k)
    \/ \E k \in TaskIds : AcquireGil(k)
    \/ \E k \in TaskIds : ReleaseGil(k)
    \/ \E k \in TaskIds : CallbackOk(k)
    \/ \E k \in TaskIds : CallbackPanic(k)
    \/ \E k \in TaskIds : StepEnd(k)
    \/ \E k \in TaskIds : OperatorsDone(k)
    \/ \E k \in TaskIds : \E p \in Probes : Probe(k, p)
    \/ \E k \in TaskIds : Notify(k)

NextBinding ==
    \/ PyRunStep
    \/ PyReturn
    \/ \E n \in 1 .. MaxSteps : RunSteps(n)
    \/ Clear
    \/ Spawn
    \/ WaitReturn
    \/ NativeReturn
    \/ TaskNext

SpecBinding == Init /\ [][NextBinding]_vars

(* ------------------------ operators on view signals --------------------- *)

\* the same for an engine built from the view catalogue
ViewKindAt(shift, i) ==
    Len(Catalogue) + Len(HostCatalogue) + ((i + shift) % Len(ViewCatalogue)) + 1

\* the locks of an engine with the two views
Locks == Signals \cup {SigV1, SigV2}

InitViews ==
    /\ deps \in {FlatGraph, ChainGraph, SelfGraph}
    /\ \E shift \in 0 .. (Len(ViewCatalogue) - 1) :
           kind = [i \in Ops |-> ViewKindAt(shift, i)]
    /\ Start
    /\ Unbuilt(0)
    /\ val = [s \in Locks |-> Unknown]

\* one or two threads call run_step on an engine of copies between arrays
\* and views
NextViews ==
    \/ \E n \in 1 .. MaxSteps : RunSteps(n)
    \/ Clear
    \/ Spawn
    \/ WaitReturn
    \/ NextIteration
    \/ RunStep2
    \/ Clear2
    \/ Spawn2
    \/ WaitReturn2
    \/ \E k \in TaskIds : BuildTasks(k)
    \/ \E k \in TaskIds : BuildPanic(k)
    \/ \E k \in TaskIds : \E i \in Ops : PollTop(k, i)
    \/ \E k \in TaskIds : \E e \in 1 .. NOps : PollDep(k, e)
    \/ \E k \in TaskIds : StepBegin(k)
    \/ \E k \in TaskIds : Acquire(k)
    \/ \E k \in TaskIds : LeasePanic(k)
    \/ \E k \in TaskIds : Drop(k)
    \/ \E k \in TaskIds : StepEnd(k)
    \/ \E k \in TaskIds : OperatorsDone(k)
    \/ \E k \in TaskIds : \E p \in Probes : Probe(k, p)
    \/ \E k \in TaskIds : Notify(k)

SpecViews == InitViews /\ [][NextViews]_vars

(* ------------------- steps whose array contents are followed ------------ *)

\* the same for an engine built from the value catalogue
ValueKindAt(shift, i) ==
    Len(Catalogue) + Len(HostCatalogue) + Len(ViewCatalogue)
    + ((i + shift) % Len(ValueCatalogue)) + 1

\* the buffer of a signal as an array of one axis
AsArray(elems) == Nd(<< Len(elems) >>, elems)

\* The store after step() has written signal s, contents followed.  Reset:
\* `target.write().assign_array(&self.value)`, the operator's value being
\* zeros here.  ElementwiseInc: `**target += &(&**left * &**right)` on the
\* contents the operands have while all three guards are held.  TimeUpdate
\* as in StepWrites.
StepWritesFollowed(v, prog, s) ==
    IF prog = ResetStep(s)
    THEN [v EXCEPT ![s] = [x \in DOMAIN @ |-> 0]]
    ELSE IF Len(prog) = 4 /\ prog = ElementwiseIncStep(s, prog[1].sig, prog[2].sig)
    THEN [v EXCEPT ![s] =
             AddArrays(AsArray(@), mul_view(AsArray(v[prog[1].sig]),
                                            AsArray(v[prog[2].sig]))).elems]
    ELSE StepWrites(v, prog, s)

\* Acquire, with the contents of the arrays followed
AcquireFollowed(k) ==
    /\ phase[k] = "operators"
    /\ InStep(k)
    /\ ipc[k] <= Len(Prog(Top(k).op))
    /\ Instr(k).t = "acq"
    /\ Grantable(Instr(k).mode, Instr(k).sig)
    /\ held' = [held EXCEPT
                  ![k] = Append(@, Guard(Instr(k).sig, Instr(k).mode, Top(k).op))]
    /\ ipc' = [ipc EXCEPT ![k] = @ + 1]
    /\ val' = IF Instr(k).mode = "W"
              THEN StepWritesFollowed(val, Prog(Top(k).op), Instr(k).sig)
              ELSE val
    /\ UNCHANGED << config, second, built, resetAt, gil, caller, is_done,
                    phase, futures, probesLeft, data, ghost >>

\* an engine right after Engine::reset: every buffer holds its
\* initial_value
InitOrder ==
    /\ \E g \in GraphsFrom(0) : deps = [i \in Ops |-> g[i + 1]]
    /\ \E shift \in 0 .. (Len(ValueCatalogue) - 1) :
           kind = [i \in Ops |-> ValueKindAt(shift, i)]
    /\ Start
    /\ Unbuilt(0)
    /\ val = initial_value

NextOrder ==
    \/ \E n \in 1 .. MaxSteps : RunSteps(n)
    \/ Clear
    \/ Spawn
    \/ WaitReturn
    \/ NextIteration
    \/ \E k \in TaskIds : BuildTasks(k)
    \/ \E k \in TaskIds : BuildPanic(k)
    \/ \E k \in TaskIds : \E i \in Ops : PollTop(k, i)
    \/ \E k \in TaskIds : \E e \in 1 .. NOps : PollDep(k, e)
    \/ \E k \in TaskIds : StepBegin(k)
    \/ \E k \in TaskIds : AcquireFollowed(k)
    \/ \E k \in TaskIds : Drop(k)
    \/ \E k \in TaskIds : StepEnd(k)
    \/ \E k \in TaskIds : OperatorsDone(k)
    \/ \E k \in TaskIds : \E p \in Probes : Probe(k, p)
    \/ \E k \in TaskIds : Notify(k)

SpecOrder == InitOrder /\ [][NextOrder]_vars

(* ------------------------------ properties ------------------------------ *)

\* the operators i depends on, directly or through other operators
RECURSIVE Closure(_)
Closure(i) ==
    LET direct == { j \in DepSet(i) : j < i }
    IN direct \cup UNION { Closure(j) : j \in direct }

Independent(i, j) == i # j /\ i \notin Closure(j) /\ j \notin Closure(i)

\* the ticks probe p holds a sample of
Samples(p) == { data[p][x] : x \in DOMAIN data[p] }

\* the run_step calls that have returned
Returned == IF pc = "wait" THEN spawned - 1 ELSE spawned

\* C1: in every step, an operator's step() is entered only after step() of
\* every operator in its dependencies, and in their transitive closure, has
\* returned in that step.
C1_TopoRespect ==
    \A k \in TaskIds : \A i \in Ops :
        started[k][i] > 0 => \A j \in Closure(i) : finished[k][j] > 0

\* an operator that depends on another that depends on a third is inside
\* step(), reached by a poll of the top level that named it first
C1_Witness ==
    \E k \in TaskIds :
        /\ deps[NOps - 1] = << NOps - 2 >>
        /\ deps[NOps - 2] = << NOps - 3 >>
        /\ stack[k] = << Frame(NOps - 1, 0) >>
        /\ fut[k][NOps - 1] = "stepping"

\* C2: no operator enters step() twice in one step, and when run_step has
\* returned every operator has entered and left step() exactly once, also
\* with a dependency shared by several operators or listed twice.
C2_SingleFire ==
    /\ \A k \in TaskIds : \A i \in Ops : started[k][i] <= 1
    /\ \A k \in 1 .. Returned : \A i \in Ops :
           started[k][i] = 1 /\ finished[k][i] = 1

\* a run_step has returned on a graph in which two operators name operator
\* 0 and one of them lists it twice
C2_Witness ==
    /\ pc = "returned"
    /\ deps[1] = << 0 >>
    /\ deps[2] = << 0, 0 >>

\* C3: a probe holds a sample of a tick only when every operator's step()
\* of that tick has returned.
C3_ProbesAfterOperators ==
    \A k \in TaskIds : \A p \in Probes :
        k \in Samples(p) =>
            \A i \in Ops : fut[k][i] = "complete" /\ finished[k][i] > 0

\* one probe has sampled the second tick, another has not yet
C3_Witness ==
    \E p, q \in Probes : 2 \in Samples(p) /\ q \in probesLeft[2]

\* C4: when run_step has returned, every operator has stepped and every
\* probe has sampled in the task of that call; until then the caller is
\* still in wait().
C4_ReturnAfterStep ==
    \A k \in 1 .. Returned :
        /\ \A i \in Ops : fut[k][i] = "complete"
        /\ \A p \in Probes : k \in Samples(p)

\* the second run_step has returned
C4_Witness == pc = "returned" /\ spawned = 2

\* C5 (as claimed): when an operator's step() has panicked (the failed host
\* callback of SimNeurons, or a lock that refuses a second lease to its own
\* thread), the task has still set the Event, so that wait() can return.
C5_PanicStillSetsEvent ==
    \A k \in TaskIds : (phase[k] = "panicked" /\ InStep(k)) => is_done

\* C6: an operator of step k+1 enters step() only when every probe holds
\* its sample of step k.
C6_StepsTotallyOrdered ==
    \A k \in TaskIds : \A i \in Ops :
        (k > 1 /\ started[k][i] > 0) =>
            \A p \in Probes : (k - 1) \in Samples(p)

\* an operator of the second step is inside step()
C6_Witness == InStep(2) /\ \A p \in Probes : Samples(p) = {1}

\* C7: whenever the caller is not inside run_step, every probe holds one
\* sample per run_step call made so far (probes start out empty).
C7_ProbeLength ==
    pc # "wait" => \A p \in Probes : Len(data[p]) = spawned

\* run_steps has returned after two steps, made by one call or by two
C7_Witness == pc = "idle" /\ spawned = 2 /\ \A p \in Probes : Len(data[p]) = 2

\* C8 (as claimed): while an operator is inside step(), an operator that is
\* independent of it and whose dependencies have all completed can enter
\* step() too.
C8_IndependentMayOverlap ==
    \A k \in TaskIds : \A i, j \in Ops :
        ( /\ phase[k] = "operators"
          /\ fut[k][i] = "stepping"
          /\ Independent(i, j)
          /\ fut[k][j] = "idle"
          /\ \A d \in Closure(j) : fut[k][d] = "complete" )
        => ENABLED (Next /\ started'[k][j] > started[k][j])

\* C9: on every signal at most one write lease is held, and while it is
\* held no read lease is; read leases may be held together.
C9_WriteLeaseExclusive ==
    \A s \in Signals :
        /\ Writers(s) <= 1
        /\ Writers(s) = 1 => Readers(s) = 0

\* two read leases are held on one signal at the same time
C9_Witness == \E s \in Signals : Readers(s) = 2 /\ Writers(s) = 0

\* the signals operator i takes a write lease on
WriteSigs(i) ==
    { Prog(i)[x].sig : x \in { y \in DOMAIN Prog(i) :
                                 Prog(i)[y].t = "acq" /\ Prog(i)[y].mode = "W" } }

\* the signals operator i takes any lease on
UsedSigs(i) ==
    { Prog(i)[x].sig : x \in { y \in DOMAIN Prog(i) : Prog(i)[y].t = "acq" } }

\* the caller's side of the contract: operators that write the same signal
\* are connected by dependencies
WritersConnected ==
    /\ GraphBuildable
    /\ \A i, j \in Ops :
           (i # j /\ WriteSigs(i) \cap WriteSigs(j) # {}) => ~ Independent(i, j)

Conflicts(m1, m2) == m1 = "W" \/ m2 = "W"

\* operator Top(k).op is about to ask for a lease
AtAcquire(k) ==
    /\ phase[k] = "operators"
    /\ InStep(k)
    /\ ipc[k] <= Len(Prog(Top(k).op))
    /\ Instr(k).t = "acq"

\* C10: on a graph that keeps the contract, whenever an operator asks for a
\* lease on a signal, no other operator holds a lease on that signal that
\* conflicts with it.
C10_NoConflictingAttempt ==
    \A k \in TaskIds :
        (AtAcquire(k) /\ WritersConnected) =>
            \A k2 \in TaskIds : \A x \in DOMAIN held[k2] :
                ( /\ (k2 # k \/ held[k2][x].op # Top(k).op)
                  /\ held[k2][x].sig = Instr(k).sig )
                => ~ Conflicts(held[k2][x].mode, Instr(k).mode)

\* on a graph that keeps the contract an operator asks for a write lease on
\* a signal that an independent operator has used earlier in the same step
C10_Witness ==
    /\ WritersConnected
    /\ \E k \in TaskIds : \E j \in Ops :
           /\ AtAcquire(k)
           /\ Instr(k).mode = "W"
           /\ Independent(Top(k).op, j)
           /\ finished[k][j] = 1
           /\ Instr(k).sig \in UsedSigs(j)

\* the host callback of the operator on top of task k's stack is running
AtCall(k) ==
    /\ phase[k] = "operators"
    /\ InStep(k)
    /\ ipc[k] <= Len(Prog(Top(k).op))
    /\ Instr(k).t = "call"

\* the host callback has returned and step() is not over yet
AfterCall(k) ==
    /\ phase[k] = "operators"
    /\ InStep(k)
    /\ ipc[k] <= Len(Prog(Top(k).op))
    /\ \E q \in 1 .. (ipc[k] - 1) : Prog(Top(k).op)[q].t = "call"

\* C11: while the host callback of a SimNeurons, SimProcess or SimPyFunc
\* runs, and after it has returned until step() ends, the task that runs it
\* holds the host's global lock; so no two host callbacks run at once.
C11_CallbackUnderGil ==
    /\ \A k \in TaskIds : (AtCall(k) \/ AfterCall(k)) => gil = k
    /\ \A k1, k2 \in TaskIds : (AtCall(k1) /\ AtCall(k2)) => k1 = k2

\* in an engine of a SimNeurons, a SimProcess and a SimPyFunc, the callback
\* of the last of them runs after those of the other two have returned
C11_Witness ==
    \E k \in TaskIds :
        /\ AtCall(k)
        /\ \A i \in Ops : kind[i] > Len(Catalogue) /\ kind[i] < Len(Programs)
        /\ \A i \in Ops : i # Top(k).op => finished[k][i] = 1

\* C12 (as claimed): a run_step call that begins after a step has failed
\* returns an error at once: no operator of its task enters step() and no
\* probe takes a sample for it.
C12_FailedIsTerminal ==
    (late /\ task2 # 0) =>
        /\ \A i \in Ops : started[task2][i] = 0
        /\ \A p \in Probes : task2 \notin Samples(p)

\* the first caller is inside run_step (the state the spec calls Stepping)
Stepping == pc \in {"clear", "spawn", "wait"}

\* C13 (as claimed): while one caller is inside run_step, whatever a second
\* caller does by calling run_step or reset changes no signal, no probe,
\* not the Event, and submits no task.
C13_RejectedWhileStepping ==
    [][ (Stepping /\ second' # second) =>
            UNCHANGED << val, data, is_done, spawned >> ]_vars

\* the engine holds a TimeUpdate operator
HasTimeUpdate == \E i \in Ops : Prog(i) = TimeUpdateStep

\* C14: Engine::reset, called between steps and after any number of them,
\* leaves every scalar and every owned array at its initial value; and when
\* exactly one run_step has returned since a reset, the step counter of a
\* TimeUpdate that started at 0 reads 1.
C14_ResetRestoresInitial ==
    /\ [][ EngineReset => \A s \in Signals : val'[s] = initial_value[s] ]_vars
    /\ []( ( /\ HasTimeUpdate
             /\ initial_value[SigStep] = << 0 >>
             /\ pc = "idle"
             /\ spawned = resetAt + 1 )
           => val[SigStep] = << 1 >> )

\* an engine with a TimeUpdate has made two steps and has just been reset:
\* the counter, the time and both arrays hold their initial values
C14_Witness ==
    /\ HasTimeUpdate
    /\ pc = "idle"
    /\ spawned = 2
    /\ resetAt = 2
    /\ \A s \in Signals : val[s] = initial_value[s]

\* C15 (as claimed): with a TimeUpdate in the engine, whenever no step is in
\* flight the step counter equals the number of run_step calls that have
\* returned since the last reset (or since construction).
C15_StepCountsFromZero ==
    (HasTimeUpdate /\ pc # "wait") => val[SigStep] = << spawned - resetAt >>

\* C15 (amended): ... the step counter equals its initial value plus the
\* number of run_step calls that have returned since the last reset (or
\* since construction).
C15_StepCountsFromInitial ==
    (HasTimeUpdate /\ pc # "wait") =>
        val[SigStep] = << initial_value[SigStep][1] + (spawned - resetAt) >>

\* a counter that started at 1 reads 2 after a step, a reset and one more
\* step
C15_Witness ==
    /\ HasTimeUpdate
    /\ pc = "idle"
    /\ initial_value[SigStep] = << 1 >>
    /\ resetAt = 1
    /\ spawned = 2
    /\ val[SigStep] = << 2 >>

\* step() of the TimeUpdate on top of task k's stack has run its last
\* statement and is about to return
TimeUpdateStepped(k) ==
    /\ phase[k] = "operators"
    /\ InStep(k)
    /\ Prog(Top(k).op) = TimeUpdateStep
    /\ ipc[k] > Len(TimeUpdateStep)

\* C16: when TimeUpdate::step returns, the time is the product of dt and
\* the step counter as this step's increment left it.
C16_TimeIsStepTimesDt ==
    \A k \in TaskIds :
        (TimeUpdateStepped(k) /\ val[SigStep] # Unknown) =>
            val[SigTime] = << val[SigStep][1] * Dt >>

\* the TimeUpdate of the second step since construction is about to return
C16_Witness ==
    /\ TimeUpdateStepped(2)
    /\ resetAt = 0
    /\ val[SigStep] = << initial_value[SigStep][1] + 2 >>

\* C18: Engine::reset leaves the samples of every probe as they are.
C18_ResetKeepsProbes == [][ EngineReset => data' = data ]_vars

\* a reset has been made after two steps, and the probes hold both samples
C18_Witness ==
    /\ pc = "idle"
    /\ resetAt = 2
    /\ \A s \in {SigStep, SigTime} : val[s] = initial_value[s]
    /\ \A p \in Probes : Len(data[p]) = 2

\* C17: a reset of a signal that directly follows a reset of the same
\* signal changes nothing, for a scalar, an owned array and a view.
C17_ResetIdempotent ==
    [][ ( /\ last.call \in {"reset", "reset again"}
          /\ last'.call = "reset again"
          /\ ResetOne(last.ref) )
        => val' = val ]_vars

\* a view has been reset twice in a row while an array does not hold its
\* initial value
C17_Witness ==
    /\ last.call = "reset again"
    /\ last.ref.kind = "view"
    /\ \E s \in {SigA, SigB} : val[s] # initial_value[s]

\* the positions of the base that slice sl selects
Selected(sl) ==
    { j \in 1 .. sl.end : j > sl.start /\ (j - 1 - sl.start) % sl.step = 0 }

\* C19: a write through a view of an owned base is read back from the base
\* at the positions of the slice and leaves the rest of the base as it
\* was; after a write or a reset of the base, the view reads the elements
\* of the base at the positions of the slice.
C19_ViewCoherent ==
    [][ \A v \in DOMAIN views :
          LET b == views[v].base.name
              sl == views[v].slice
          IN /\ (last'.call = "write" /\ last'.ref = ViewRef(v)) =>
                    \A src \in Sources(LenOf(ViewRef(v))) :
                        WriteSignal(ViewRef(v), src) =>
                            /\ \A n \in DOMAIN src :
                                   val'[b][sl.start + ((n - 1) * sl.step) + 1]
                                       = src[n]
                            /\ \A j \in DOMAIN val[b] \ Selected(sl) :
                                   val'[b][j] = val[b][j]
             /\ ( /\ last'.call \in {"write", "reset", "reset again"}
                  /\ last'.ref = OwnedRef(b)
                  /\ \/ \E src \in Sources(ShapeOf(b)) :
                            WriteSignal(OwnedRef(b), src)
                     \/ ResetOne(OwnedRef(b)) )
                => \A n \in 1 .. LenOf(ViewRef(v)) :
                       ReadSignal(ViewRef(v))'[n]
                           = val'[b][sl.start + ((n - 1) * sl.step) + 1] ]_vars

\* a view of every other element of A has just been written, and A holds
\* different elements inside and outside the slice
C19_Witness ==
    /\ last.call = "write"
    /\ last.ref.kind = "view"
    /\ views[last.ref.idx].base.name = SigA
    /\ views[last.ref.idx].slice = SliceInfo(0, 2, ArrLen)
    /\ val[SigA][1] # val[SigA][2]

\* C20: new_view on a base that is itself a view fails and adds no signal;
\* the base of every view that exists is an owned array.
C20_NoViewOfView ==
    /\ [](\A v \in DOMAIN views : views[v].base.kind = "owned")
    /\ [][ ( /\ last'.call \in {"built", "panicked"}
             /\ last'.ref.kind = "view"
             /\ \E slice \in ValidSlices(LenOf(last'.ref)) :
                    NewView(last'.ref, slice) )
           => (views' = views /\ last'.call = "panicked") ]_vars

\* new_view has just refused a base that is a view
C20_Witness ==
    /\ last.call = "panicked"
    /\ last.ref.kind = "view"
    /\ Len(views) = 1

\* C21 (as claimed): a dependencies list naming an index that is not smaller
\* than the operator's own never gets as far as a step: no task looks up a
\* future that has not been built (tasks.get(i) finding nothing).
C21_BadIndexRejected ==
    \A k \in TaskIds : ~ (phase[k] = "panicked" /\ ~ GraphBuildable)

\* C22: a probe's samples only grow by appending.  probe() appends the value
\* its target holds at that moment; every other call (a write to the target,
\* a reset, get_data, a probe() of another probe) leaves the samples
\* recorded so far as they are, also when the target's buffer has changed
\* since.
C22_SamplesAppendOnly ==
    [][ \A p \in Probes :
          IF last'.call = "probe" /\ last'.ref = ProbeHandle(p)
          THEN data'[p] = Append(data[p], val[ProbeTarget(p)])
          ELSE data'[p] = data[p] ]_vars

\* two samples of one probe that differ, the target having been written
\* again since the second, and the samples read out
C22_Witness ==
    /\ last.call = "get_data"
    /\ \E p \in Probes :
          /\ Len(data[p]) = 2
          /\ data[p][1] # data[p][2]
          /\ val[ProbeTarget(p)] # data[p][2]
          /\ val[ProbeTarget(p)] # data[p][1]

\* an operator of the given kind has just been stepped
JustRan(name) ==
    /\ last.call = "none"
    /\ last'.call # "none"
    /\ last'.ref.kind = name

\* element n of an operand, one of shape [1] standing for each of them
At(arr, n) == IF arr.shape = << 1 >> THEN arr.elems[1] ELSE arr.elems[n]

\* C23: ElementwiseInc.step(), on left and right that each have the
\* target's shape or the shape [1] (at least one of them the target's),
\* adds left[n] * right[n] to every element n of target, the single value of
\* an operand of shape [1] standing for each of its elements, and changes no
\* other signal.
C23_ElementwiseInc ==
    [][ ( /\ JustRan("ElementwiseInc")
          /\ val[OpLeft].shape \in { val[OpTarget].shape, << 1 >> }
          /\ val[OpRight].shape \in { val[OpTarget].shape, << 1 >> }
          /\ \/ val[OpLeft].shape = val[OpTarget].shape
             \/ val[OpRight].shape = val[OpTarget].shape )
        => /\ last'.call = "stepped"
           /\ val'[OpTarget].shape = val[OpTarget].shape
           /\ \A n \in DOMAIN val[OpTarget].elems :
                 val'[OpTarget].elems[n] =
                     val[OpTarget].elems[n]
                     + At(val[OpLeft], n) * At(val[OpRight], n)
           /\ \A s \in OpSignals \ { OpTarget } : val'[s] = val[s] ]_vars

\* left of shape [1] was broadcast over a longer right, and target's
\* elements (equal before the step) now differ
C23_Witness ==
    /\ last.call = "stepped"
    /\ last.ref.kind = "ElementwiseInc"
    /\ val[OpLeft].shape = << 1 >>
    /\ val[OpRight].shape = << ArrLen >>
    /\ val[OpTarget].shape = << ArrLen >>
    /\ val[OpTarget].elems[1] # val[OpTarget].elems[2]

\* C24 (as claimed): ElementwiseInc.step() on left and right whose shapes
\* differ, neither being [1], is rejected and leaves every signal as it
\* was.
C24_OtherBroadcastRejected ==
    [][ ( /\ JustRan("ElementwiseInc")
          /\ val[OpLeft].shape # val[OpRight].shape
          /\ val[OpLeft].shape # << 1 >>
          /\ val[OpRight].shape # << 1 >> )
        => (last'.call = "panicked" /\ val' = val) ]_vars

\* C25 (as claimed): SimPyFunc.step() hands its callback exactly the
\* present ones of (t, x), in that order: (), (t), (x) or (t, x).
C25_PresentSubset ==
    [][ JustRan("SimPyFunc")
        => last'.ref.args =
               (IF last'.ref.flags[1] THEN << val[OpT] >> ELSE << >>)
               \o (IF last'.ref.flags[2] THEN << val[OpLeft] >> ELSE << >>)
      ]_vars

\* C26: SimProcess.step() leaves output untouched when the callback returns
\* None; on a returned array r (of output's shape) output becomes r when
\* mode_inc is false and output + r, element by element, when it is true;
\* no other signal (t and input among them) changes.
C26_SimProcess ==
    [][ JustRan("SimProcess")
        => LET mode_inc == last'.ref.flags[1]
               result == last'.ref.result
           IN /\ last'.call = "stepped"
              /\ result = << >> => val'[OpTarget] = val[OpTarget]
              /\ (result # << >> /\ ~ mode_inc) => val'[OpTarget] = result[1]
              /\ (result # << >> /\ mode_inc)
                    => /\ val'[OpTarget].shape = val[OpTarget].shape
                       /\ \A n \in DOMAIN val[OpTarget].elems :
                             val'[OpTarget].elems[n] =
                                 val[OpTarget].elems[n] + result[1].elems[n]
              /\ \A s \in OpSignals \ { OpTarget } : val'[s] = val[s] ]_vars

\* a SimProcess with mode_inc and an input whose callback returned an array
\* that was added to a non-zero output
C26_Witness ==
    /\ last.call = "stepped"
    /\ last.ref.kind = "SimProcess"
    /\ last.ref.flags = << TRUE, TRUE >>
    /\ last.ref.result # << >>
    /\ val[OpTarget].shape = << ArrLen >>
    /\ val[OpTarget].elems[1] > last.ref.result[1].elems[1]
    /\ last.ref.result[1].elems[1] > 0

\* C27: CopyOp.step() on src and dst of equal shape (two scalars or two
\* arrays): dst takes src's elements when inc is false and grows by them
\* when inc is true; src and every other signal are unchanged.
C27_CopyOp ==
    [][ JustRan("CopyOp")
        => LET inc == last'.ref.flags[1]
               src == IF last'.ref.flags[2] THEN OpSrc ELSE OpLeft
               dst == IF last'.ref.flags[2] THEN OpDst ELSE OpTarget
           IN val[src].shape = val[dst].shape
              => /\ last'.call = "stepped"
                 /\ val'[dst].shape = val[dst].shape
                 /\ \A n \in DOMAIN val[dst].elems :
                       val'[dst].elems[n] =
                           IF inc THEN val[dst].elems[n] + val[src].elems[n]
                           ELSE val[src].elems[n]
                 /\ \A s \in OpSignals \ { dst } : val'[s] = val[s] ]_vars

\* an incrementing copy between two arrays that made dst's elements differ
C27_Witness ==
    /\ last.call = "stepped"
    /\ last.ref.kind = "CopyOp"
    /\ last.ref.flags = << TRUE, FALSE >>
    /\ val[OpTarget].shape = << ArrLen >>
    /\ val[OpLeft].shape = << ArrLen >>
    /\ val[OpTarget].elems[1] # val[OpTarget].elems[2]
    /\ val[OpTarget].elems[2] > val[OpLeft].elems[2]

\* the inner product of b with the Len(b) elements of a after position off
Inner(a, off, b) == SumSeq([j \in 1 .. Len(b) |-> a[off + j] * b[j]])

\* C28: DotInc.step() adds the inner product of two vectors of one length
\* to the element of a target of shape [1], and the product of a matrix and
\* a vector (one inner product per row) to a target with one element per
\* row; a left operand that is neither vector nor matrix, or a right one
\* that is not a vector, is rejected with every signal as it was.  Left,
\* right and all other signals never change.
C28_DotInc ==
    [][ JustRan("DotInc")
        => LET t == val[OpTarget]
               l == val[OpLeft]
               r == val[OpRight]
           IN /\ (Len(l.shape) = 1 /\ r.shape = l.shape /\ t.shape = << 1 >>)
                    => /\ last'.call = "stepped"
                       /\ val'[OpTarget] =
                              Nd(<< 1 >>,
                                 << t.elems[1] + Inner(l.elems, 0, r.elems) >>)
              /\ ( /\ Len(l.shape) = 2
                   /\ r.shape = << l.shape[2] >>
                   /\ t.shape = << l.shape[1] >> )
                    => /\ last'.call = "stepped"
                       /\ val'[OpTarget].shape = t.shape
                       /\ \A i \in 1 .. l.shape[1] :
                             val'[OpTarget].elems[i] =
                                 t.elems[i]
                                 + Inner(l.elems, (i - 1) * l.shape[2], r.elems)
              /\ (Len(l.shape) \notin { 1, 2 } \/ Len(r.shape) # 1)
                    => (last'.call = "panicked" /\ val' = val)
              /\ \A s \in OpSignals \ { OpTarget } : val'[s] = val[s] ]_vars

\* a matrix times a vector, added to a target with one element per row, the
\* rows' products differing
C28_Witness ==
    /\ last.call = "stepped"
    /\ last.ref.kind = "DotInc"
    /\ Len(val[OpLeft].shape) = 2
    /\ val[OpTarget].shape = << val[OpLeft].shape[1] >>
    /\ val[OpTarget].elems[1] # val[OpTarget].elems[2]
    /\ val[OpTarget].elems[1] > MaxElem

\* what m run_step() calls in a row, each returned, leave behind on an engine
\* as constructed: every probe holds the samples of the steps 1 .. m, a
\* TimeUpdate's counter has grown by m and its time is that of the last
\* step, and the Event is set once a step was made
AfterRunStepCalls(m) ==
    /\ \A p \in Probes : data[p] = [j \in 1 .. m |-> j]
    /\ is_done = (m > 0)
    /\ val[SigStep] = IF HasTimeUpdate
                      THEN << initial_value[SigStep][1] + m >>
                      ELSE initial_value[SigStep]
    /\ val[SigTime] = IF HasTimeUpdate /\ m > 0
                      THEN << (initial_value[SigStep][1] + m) * Dt >>
                      ELSE initial_value[SigTime]
    /\ \A k \in 1 .. m : phase[k] = "done"
    /\ \A k \in TaskIds : k > m => phase[k] = "none"

\* C29: when run_steps(n) or run_step() has returned, the engine has made n
\* steps more than it had when the call began (none for n <= 0, one for
\* run_step), and its signals, probes and Event are as that many run_step()
\* calls in a row leave them; a call run_steps(n) with n <= 0 changes
\* nothing of the engine at all.
C29_RunStepsIsRepeatedRunStep ==
    /\ []( (pc = "idle" /\ last.call \in {"run_steps", "run_step"})
           => /\ spawned = last.ref.at + (IF last.ref.n > 0 THEN last.ref.n ELSE 0)
              /\ AfterRunStepCalls(spawned) )
    /\ [][ (last'.call = "run_steps" /\ last' # last /\ last'.ref.n <= 0)
           => UNCHANGED << val, data, is_done, caller, tasks, ghost >> ]_vars

\* run_steps(2) has returned on an engine that had made no step, and then
\* run_steps(0) was called
C29_Witness ==
    /\ pc = "idle"
    /\ spawned = 2
    /\ last.call = "run_steps"
    /\ last.ref.n = 0
    /\ last.ref.at = 2
    /\ HasTimeUpdate
    /\ \A p \in Probes : Len(data[p]) = 2

\* the caller is inside Event::wait
InWait == pc \in {"wait", "parked", "woken"}
InWait2 == pc2 \in {"wait", "parked", "woken"}

\* C30: wait() returns only with the latch set; and a caller that is inside
\* wait() while the latch is set (it was set before the caller got there,
\* or while it was parked) gets out of wait(), unless the latch is cleared
\* first.
C30_EventLatch ==
    /\ [][ (InWait /\ ~ InWait') => is_done ]_vars
    /\ [][ (InWait2 /\ ~ InWait2') => is_done ]_vars
    /\ (InWait /\ is_done) ~> (~ InWait \/ ~ is_done)
    /\ (InWait2 /\ is_done) ~> (~ InWait2 \/ ~ is_done)

\* both callers were parked when one set() woke them
C30_Witness ==
    /\ pc = "woken"
    /\ pc2 = "woken"
    /\ is_done

\* strides of a row-major base: every stride a positive multiple of the
\* next one, the last one 1
RowMajor(strides) ==
    /\ strides # << >>
    /\ strides[Len(strides)] = 1
    /\ \A k \in 1 .. (Len(strides) - 1) : strides[k] % strides[k + 1] = 0

\* C32: for every offset >= 0 and every row-major base_strides,
\* offset_to_multiindex returns one index per stride, the indices weighted
\* by their strides add up to the offset, and every index but the first is
\* below the quotient of the previous stride by its own.
C32_OffsetRoundTrip ==
    (last.call = "offset_to_multiindex" /\ RowMajor(val.base_strides))
    => LET idx == last.ref.idx
           strides == val.base_strides
       IN /\ Len(idx) = Len(strides)
          /\ SumSeq([k \in DOMAIN idx |-> idx[k] * strides[k]]) = val.offset
          /\ \A k \in 2 .. Len(idx) :
                 idx[k] < strides[k - 1] \div strides[k]

\* offset 10 on the strides [8, 4, 1] gave [1, 0, 2]
C32_Witness ==
    /\ last.call = "offset_to_multiindex"
    /\ val.offset = 10
    /\ val.base_strides = << 8, 4, 1 >>
    /\ last.ref.idx = << 1, 0, 2 >>

\* the view constructor has been called with the descriptor in val
ViewConstructed ==
    /\ last.call \in {"built", "panicked"}
    /\ last.ref.kind = "SignalArrayViewF64"

\* C33: for every descriptor of a non-empty view that lies inside its base,
\* has positive steps and as many axes as the base, the constructor builds
\* the view, and the shape derived from the slices is the descriptor's
\* shape.
C33_ViewShapeIsDescriptorShape ==
    (ViewConstructed /\ Len(val.shape) = Len(val.base_shape))
    => /\ last.call = "built"
       /\ last.ref.shape = val.shape

\* a view of a base with two axes that starts inside the base and has a
\* slice whose end was clipped to the base
C33_Witness ==
    /\ ViewConstructed
    /\ last.call = "built"
    /\ Len(val.base_shape) = 2
    /\ val.offset > val.base_strides[1]
    /\ val.shape = << 1, 2 >>
    /\ last.ref.shape = << 1, 2 >>
    /\ \E k \in DOMAIN last.ref.slice :
           last.ref.slice[k].end
               < last.ref.slice[k].start + last.ref.slice[k].step * val.shape[k]

\* C34 (as claimed): for every view descriptor handed to the view
\* constructor, also one whose shape has fewer axes than the base, the
\* slice list built by the conversion holds one slice per axis of the base.
C34_OneSlicePerBaseAxis ==
    ViewConstructed => Len(last.ref.slice) = Len(val.base_shape)

\* C40 (as claimed): as constructed, before any reset or write, reading an
\* owned array signal gives its initial value, as reading a scalar signal
\* does.
C40_ConstructedHoldsInitialValue ==
    last.call = "none"
    => /\ ReadSignal(ScalarRef(SigStep)) = initial_value[SigStep]
       /\ \A s \in {SigA, SigB} : ReadSignal(OwnedRef(s)) = initial_value[s]

\* the tasks submitted by the first caller's run_step calls
TasksOfFirst == { k \in 1 .. spawned : k # task2 }

\* C38 (as claimed): with two threads calling run_step on one Engine, a
\* call returns only once the task of its own step has finished (operators
\* and probes done, Event set by it): the second caller's call, and every
\* call of the first caller.
C38_ReturnsAfterOwnStep ==
    ~ SomeStepFailed
    => /\ (pc2 = "gone" /\ task2 # 0) => phase[task2] = "done"
       /\ \A k \in TasksOfFirst :
              (pc # "wait" \/ \E j \in TasksOfFirst : j > k)
              => phase[k] = "done"

\* C37 (as claimed): while a run_step issued through the binding waits on
\* the Event with the host's lock held by its caller, and no callback has
\* failed, the task of the step can always go on (so that the call
\* returns), also when an operator of the graph needs the host's lock.
C37_BoundRunStepGoesOn ==
    (pc = "wait" /\ gil = HostCaller /\ ~ is_done /\ ~ SomeStepFailed)
    => ENABLED TaskNext

\* the guards thread k holds on the lock s
GuardsOn(k, s) == { x \in DOMAIN held[k] : held[k][x].sig = s }

\* C31 (as claimed): while a thread holds the guard that write() of a view
\* of A returned, no other thread holds a lease on the buffer of A, taken
\* on A itself or through a view of A.
C31_ViewWriteCoversBase ==
    \A k, k2 \in TaskIds :
        ( /\ k # k2
          /\ \E v \in {SigV1, SigV2} :
                 \E x \in GuardsOn(k, v) : held[k][x].mode = "W" )
        => GuardsOn(k2, SigA) = {}

\* C35 (as claimed): whatever operands of an operator are the same signal,
\* a view and its base, or two views of one base, step() never asks for a
\* lease that a guard it holds itself stands against.
C35_NoWaitOnOwnLease ==
    \A k \in TaskIds : AtAcquire(k) => ~ OwnConflict(k)

\* C36 (as claimed): on a graph that keeps the contract, and with one
\* thread calling run_step, no operator ever waits for a lease: every lease
\* asked for during a step can be granted, so the step goes on.
C36_NoLeaseWait ==
    \A k \in TaskIds :
        (AtAcquire(k) /\ WritersConnected /\ pc2 = "idle")
        => Grantable(Instr(k).mode, Instr(k).sig)

\* the store after step() of an operator with lease program prog has run
\* from the store v, from instruction n on
RECURSIVE RunProgFrom(_, _, _)
RunProgFrom(v, prog, n) ==
    IF n > Len(prog) THEN v
    ELSE RunProgFrom(IF prog[n].t = "acq" /\ prog[n].mode = "W"
                     THEN StepWritesFollowed(v, prog, prog[n].sig) ELSE v,
                     prog, n + 1)

\* the store after the operators from index i on have run one after the
\* other, in the order of the operator list
RECURSIVE RunOpsFrom(_, _)
RunOpsFrom(v, i) ==
    IF i = NOps THEN v ELSE RunOpsFrom(RunProgFrom(v, Prog(i), 1), i + 1)

\* the store after n steps from the initial values
RECURSIVE AfterSteps(_)
AfterSteps(n) ==
    IF n = 0 THEN initial_value ELSE RunOpsFrom(AfterSteps(n - 1), 0)

\* the steps whose operators are over
StepsOver == { k \in TaskIds : phase[k] \in {"probes", "done"} }

\* no step is between its first and its last operator
BetweenSteps == \A k \in TaskIds : phase[k] \in {"none", "queued", "probes", "done"}

\* operators of which one writes a signal the other reads or writes are
\* connected by dependencies
AccessConnected ==
    /\ GraphBuildable
    /\ \A i, j \in Ops :
           (i # j /\ WriteSigs(i) \cap UsedSigs(j) # {}) => ~ Independent(i, j)

====
